---- MODULE Spec2Model ----
(***************************************************************************)
(* A model of the duplicate-detection core of Dedupe-Archived-Files:       *)
(*   core/hasher.py     HashCalculator                                     *)
(*   core/database.py   DatabaseManager (the Index)                        *)
(*   core/extractor.py  ArchiveExtractor (the archive walker)              *)
(*   core/scanner.py    SourceScanner and TargetScanner                    *)
(*   core/file_ops.py   FileOperations                                     *)
(*   tui/app.py         ScanningScreen (the scan worker and its Cancel)    *)
(*                                                                         *)
(* Byte strings are sequences over Bytes.  xxh3_64 is modelled as a        *)
(* collision-free digest: the digest of a byte string is that string under *)
(* a tag, so two digests are equal exactly when the hashed bytes are.      *)
(*                                                                         *)
(* The module holds several specifications over the same variables:        *)
(*   SpecHash    hash_file / hash_stream on one input                      *)
(*   SpecDb      the Index calls on the files table                        *)
(*   SpecWalk    extract_archive over a list of handlers                   *)
(*   SpecScan    source scan, target scan and selection state on a corpus  *)
(*   SpecRescan  repeated source scans of a directory that changes         *)
(*   SpecList    the handler list extract_archive builds for a file         *)
(*   SpecRun     ScanningScreen._do_scan, loop round by loop round          *)
(*   SpecTxn     Index calls that fail part-way, commits and reconnects     *)
(*   SpecDelete  FileOperations.delete_files on a small disk                *)
(*   SpecReconfig  runs over one persisted database with changing hashing   *)
(*               parameters                                                *)
(*   SpecReview  scan, ReviewScreen, ConfirmationScreen, deletion           *)
(*   SpecWorkers  scans started, cancelled and started again from the menu  *)
(*   SpecRewalk  one archive scanned again and again without a change       *)
(*   SpecGen     one extract_archive generator, frame by frame, with its    *)
(*               temporary files; SpecGenFair adds a consumer that keeps on *)
(*               iterating                                                  *)
(***************************************************************************)
EXTENDS Integers, Sequences, FiniteSets, TLC

VARIABLES
    \* --- HashCalculator -------------------------------------------------
    hasher,          \* the HashCalculator's fields
    h_data,          \* the bytes of the file or stream handed to it
    h_out,           \* what the last hash_file / hash_stream call returned
    \* --- DatabaseManager ------------------------------------------------
    db_files,        \* table files, in rowid order
    db_archives,     \* table archives, keyed by path
    db_selection,    \* table selection_state, keyed by <<file_hash, target_path>>
    inserted,        \* history: per key, the FileEntry most recently inserted
    upgraded,        \* history: per key, the full hash set by update_full_hash since then
    \* --- ArchiveExtractor -----------------------------------------------
    w_file,          \* the archive file handed to extract_archive
    w_out,           \* what the consumer of the generator saw
    \* --- scanners -------------------------------------------------------
    config,          \* the AppConfig of the run
    fs_archives,     \* the archive files under the source directories
    fs_targets,      \* the files under the target directories
    archive_infos,   \* what the last scan_source_directories returned
    duplicates,      \* what the last scan_target_directories returned
    walked,          \* history: the archives the last source scan handed to the walker
    \* --- FileOperations -------------------------------------------------
    disk,            \* per path, the state of the file it names
    trash,           \* the paths send2trash moved to the trash
    d_out,           \* what the last delete_files call returned
    \* --- the database file ---------------------------------------------
    db_persisted,    \* table files as committed to the database file
    \* --- ScanningScreen -------------------------------------------------
    s_pc,            \* where _do_scan is
    s_todo,          \* the archives or files the running loop has not started
    _cancelled,      \* the flag the Cancel button sets
    s_hist,          \* history: Index calls that raised, loop rounds after the cancel
    \* --- the handler list of extract_archive -----------------------------
    x_file,          \* name, magic bytes and installed libraries of one walk
    x_handlers,      \* the handler list extract_archive built for it
    \* --- one extract_archive generator, step by step ---------------------
    g_self,          \* the ArchiveExtractor whose generator it is
    g_stack,         \* the active generator frames, outermost first
    g_temps,         \* the temporary files that exist on disk
    g_state,         \* created, running, suspended at a yield, finished, closed
    g_hist,          \* history: the file walked, temporary files made, entries yielded
    \* --- ReviewScreen and ConfirmationScreen ------------------------------
    current_selections,  \* ReviewScreen.current_selections: (hash, target path) -> bool
    selected_files,      \* ConfirmationScreen.selected_files
    \* --- the screens of the app and their scan workers --------------------
    screen,          \* the screen on top: the main menu or a ScanningScreen
    workers,         \* the _do_scan threads started, one per ScanningScreen
    last_op          \* history: the call that produced the current state

hashVars == <<hasher, h_data, h_out>>
dbVars   == <<db_files, db_archives, db_selection>>
histVars == <<inserted, upgraded>>
walkVars == <<w_file, w_out>>
scanVars == <<config, fs_archives, fs_targets, archive_infos, duplicates, walked>>
runVars  == <<s_pc, s_todo, _cancelled, s_hist>>
listVars == <<x_file, x_handlers>>
genVars  == <<g_self, g_stack, g_temps, g_state, g_hist>>
reviewVars == <<current_selections, selected_files>>
appVars  == <<screen, workers>>
uiVars   == <<reviewVars, appVars>>
opsVars  == <<disk, trash, d_out, db_persisted, runVars, listVars, genVars, reviewVars,
              appVars>>
vars     == <<hashVars, dbVars, histVars, walkVars, scanVars, opsVars, last_op>>

\* Python's None, comparable with every record of the model.
None == [none |-> TRUE]

(***************************************************************************)
(* Bounds of the model.                                                    *)
(***************************************************************************)
MaxLen == 2                \* longest byte string
MaxChunk == 2              \* largest chunk_size of a HashCalculator
Bytes == {0, 1}

RECURSIVE SeqsUpTo(_, _)
SeqsUpTo(S, n) ==
    IF n = 0 THEN {<<>>}
    ELSE LET shorter == SeqsUpTo(S, n - 1)
         IN  shorter \cup {Append(s, x) : s \in {t \in shorter : Len(t) = n - 1}, x \in S}

Contents == SeqsUpTo(Bytes, MaxLen)

Take(s, n) == SubSeq(s, 1, IF n < Len(s) THEN n ELSE Len(s))
Drop(s, n) == SubSeq(s, (IF n < Len(s) THEN n ELSE Len(s)) + 1, Len(s))

(***************************************************************************)
(* core/hasher.py                                                          *)
(***************************************************************************)
\* xxhash.xxh3_64(): update() appends to the bytes hashed so far, hexdigest()
\* is the collision-free digest of them.
xxh3_64 == <<>>
update(state, chunk) == state \o chunk
hexdigest(state) == [xxh3 |-> state]

HashCalculator(threshold, psize, csize) ==
    [partial_hash_threshold |-> threshold,
     partial_hash_size      |-> psize,
     chunk_size             |-> csize]

\* f.read(partial_hash_size) once, hashed.
_compute_partial_hash(self, data) ==
    hexdigest(update(xxh3_64, Take(data, self.partial_hash_size)))

\* while chunk := f.read(chunk_size): hasher.update(chunk)
RECURSIVE full_hash_loop(_, _, _)
full_hash_loop(self, rest, state) ==
    IF Take(rest, self.chunk_size) = <<>> THEN state
    ELSE full_hash_loop(self, Drop(rest, self.chunk_size),
                        update(state, Take(rest, self.chunk_size)))

_compute_full_hash(self, data) == hexdigest(full_hash_loop(self, data, xxh3_64))

_compute_full_hash_stream(self, stream) == hexdigest(full_hash_loop(self, stream, xxh3_64))

\* The loop of _compute_dual_hash_stream: every chunk goes to the full hasher,
\* and chunk[:remaining] to the quick hasher while bytes_read < partial_hash_size.
RECURSIVE dual_hash_loop(_, _, _, _, _)
dual_hash_loop(self, rest, full, quick, bytes_read) ==
    LET chunk == Take(rest, self.chunk_size) IN
    IF chunk = <<>> THEN <<hexdigest(full), hexdigest(quick)>>
    ELSE dual_hash_loop(self, Drop(rest, self.chunk_size),
                        update(full, chunk),
                        IF bytes_read < self.partial_hash_size
                        THEN update(quick, Take(chunk, self.partial_hash_size - bytes_read))
                        ELSE quick,
                        bytes_read + Len(chunk))

\* A dual hash whose quick hasher is fed every chunk read.
_compute_dual_hash_stream_all_chunks(self, stream, size) ==
    <<hexdigest(full_hash_loop(self, stream, xxh3_64)),
      hexdigest(full_hash_loop(self, stream, xxh3_64))>>

_compute_dual_hash_stream(self, stream, size) ==
    dual_hash_loop(self, stream, xxh3_64, xxh3_64, 0)

\* hash_file with an off-by-one comparison: a file of exactly the threshold
\* size is taken for a small one.
hash_file_boundary_slip(self, data, file_size, readable) ==
    IF ~readable THEN <<None, None>>
    ELSE IF file_size <= self.partial_hash_threshold
         THEN <<_compute_full_hash(self, data), None>>
         ELSE <<None, _compute_partial_hash(self, data)>>

\* hash_file(filepath, file_size) -> (full_hash, quick_hash).  readable = FALSE
\* is an I/O error while opening or reading the file.
hash_file(self, data, file_size, readable) ==
    IF ~readable THEN <<None, None>>
    ELSE IF file_size < self.partial_hash_threshold
         THEN <<_compute_full_hash(self, data), None>>
         ELSE <<None, _compute_partial_hash(self, data)>>

\* A hash_stream that leaves the full hash of a large stream for later.
hash_stream_quick_only(self, stream, size) ==
    IF size >= self.partial_hash_threshold
    THEN <<None, _compute_dual_hash_stream(self, stream, size)[2]>>
    ELSE <<_compute_full_hash_stream(self, stream), None>>

\* hash_stream(stream, size) -> (full_hash, quick_hash).
\* Every caller passes the entry's size, so "size is not None" always holds.
hash_stream(self, stream, size) ==
    IF size >= self.partial_hash_threshold
    THEN _compute_dual_hash_stream(self, stream, size)
    ELSE <<_compute_full_hash_stream(self, stream), None>>

\* stream.read(chunk_size) on a stream that may return fewer bytes than asked
\* for: reads lists how many bytes the next reads return at most; a read past
\* the list returns all that was asked for.
read_size(self, reads) ==
    IF reads = <<>> \/ Head(reads) > self.chunk_size THEN self.chunk_size ELSE Head(reads)

after_read(reads) == IF reads = <<>> THEN reads ELSE Tail(reads)

\* A quick hasher fed the whole of every chunk that starts before
\* partial_hash_size.
whole_chunk(chunk, remaining) == chunk

\* chunk[:remaining]
chunk_slice(chunk, remaining) == Take(chunk, remaining)

\* _compute_full_hash_stream on such a stream.
RECURSIVE full_hash_reads(_, _, _, _)
full_hash_reads(self, rest, state, reads) ==
    LET chunk == Take(rest, read_size(self, reads)) IN
    IF chunk = <<>> THEN hexdigest(state)
    ELSE full_hash_reads(self, Drop(rest, Len(chunk)), update(state, chunk),
                         after_read(reads))

\* _compute_dual_hash_stream on such a stream.
RECURSIVE dual_hash_reads(_, _, _, _, _, _)
dual_hash_reads(self, rest, full, quick, bytes_read, reads) ==
    LET chunk == Take(rest, read_size(self, reads)) IN
    IF chunk = <<>> THEN <<hexdigest(full), hexdigest(quick)>>
    ELSE dual_hash_reads(self, Drop(rest, Len(chunk)),
                         update(full, chunk),
                         IF bytes_read < self.partial_hash_size
                         THEN update(quick, chunk_slice(chunk,
                                                        self.partial_hash_size - bytes_read))
                         ELSE quick,
                         bytes_read + Len(chunk),
                         after_read(reads))

\* hash_stream(stream, size) on such a stream.
hash_stream_reads(self, stream, size, reads) ==
    IF size >= self.partial_hash_threshold
    THEN dual_hash_reads(self, stream, xxh3_64, xxh3_64, 0, reads)
    ELSE <<full_hash_reads(self, stream, xxh3_64, reads), None>>

\* compute_full_hash_for_quick(filepath): None on an I/O error.
compute_full_hash_for_quick(self, data, readable) ==
    IF readable THEN _compute_full_hash(self, data) ELSE None

(***************************************************************************)
(* core/models.py                                                          *)
(***************************************************************************)
FileEntry(full_hash, quick_hash, filename, path_in_archive, source_archive, size, is_nested_archive) ==
    [full_hash         |-> full_hash,
     quick_hash        |-> quick_hash,
     filename          |-> filename,
     path_in_archive   |-> path_in_archive,
     source_archive    |-> source_archive,
     size              |-> size,
     is_nested_archive |-> is_nested_archive]

ArchiveInfo(path, mtime, size, last_scanned, file_count) ==
    [path |-> path, mtime |-> mtime, size |-> size,
     last_scanned |-> last_scanned, file_count |-> file_count]

DuplicateMatch(source_file, target_path, target_size, selected_for_deletion) ==
    [source_file |-> source_file, target_path |-> target_path,
     target_size |-> target_size, selected_for_deletion |-> selected_for_deletion]

\* needs_rescan compared on the modification time alone.
needs_rescan_mtime_only(self, current_mtime, current_size) ==
    IF self.last_scanned = None THEN TRUE
    ELSE self.mtime # current_mtime

\* ArchiveInfo.needs_rescan
needs_rescan(self, current_mtime, current_size) ==
    IF self.last_scanned = None THEN TRUE
    ELSE self.mtime # current_mtime \/ self.size # current_size

(***************************************************************************)
(* core/database.py.  A table is the sequence of its rows in rowid order;  *)
(* every call below commits before it returns.                             *)
(***************************************************************************)
\* UNIQUE(source_archive, path_in_archive)
Key(row) == <<row.source_archive, row.path_in_archive>>

\* INSERT without the OR REPLACE: the earlier row of the key stays.
add_file_keeps_old(files, file_entry) == Append(files, file_entry)

\* add_file: INSERT OR REPLACE deletes the row holding the key and appends
\* the new row.
add_file(files, file_entry) ==
    Append(SelectSeq(files, LAMBDA r : Key(r) # Key(file_entry)), file_entry)

\* add_files_batch: executemany of the same INSERT OR REPLACE, row by row.
RECURSIVE add_files_batch(_, _)
add_files_batch(files, file_entries) ==
    IF file_entries = <<>> THEN files
    ELSE add_files_batch(add_file(files, Head(file_entries)), Tail(file_entries))

\* WHERE full_hash = ?  (a NULL column matches nothing)
find_by_full_hash(files, full_hash) ==
    SelectSeq(files, LAMBDA r : r.full_hash # None /\ r.full_hash = full_hash)

find_by_quick_hash(files, quick_hash) ==
    SelectSeq(files, LAMBDA r : r.quick_hash # None /\ r.quick_hash = quick_hash)

check_quick_hash_exists(files, quick_hash) ==
    \E i \in 1..Len(files) :
        files[i].quick_hash # None /\ files[i].quick_hash = quick_hash

get_files_by_archive(files, archive_path) ==
    SelectSeq(files, LAMBDA r : r.source_archive = archive_path)

\* An UPDATE whose WHERE names the archive only: every row of the archive
\* gets the hash.
update_full_hash_whole_archive(files, source_archive, path_in_archive, full_hash) ==
    [i \in 1..Len(files) |->
        IF files[i].source_archive = source_archive
        THEN [files[i] EXCEPT !.full_hash = full_hash]
        ELSE files[i]]

\* update_full_hash: UPDATE files SET full_hash = ? WHERE source_archive = ?
\* AND path_in_archive = ?
update_full_hash(files, source_archive, path_in_archive, full_hash) ==
    [i \in 1..Len(files) |->
        IF Key(files[i]) = <<source_archive, path_in_archive>>
        THEN [files[i] EXCEPT !.full_hash = full_hash]
        ELSE files[i]]

\* get_archive_info: the stored row as an ArchiveInfo, or None.
get_archive_info(archives, archive_path) ==
    IF archive_path \in DOMAIN archives THEN archives[archive_path] ELSE None

\* update_archive: INSERT OR REPLACE with last_scanned = now.
update_archive(archives, archive_path, mtime, size, file_count, now) ==
    [p \in DOMAIN archives \cup {archive_path} |->
        IF p = archive_path
        THEN ArchiveInfo(archive_path, mtime, size, now, file_count)
        ELSE archives[p]]

\* Optional[bool]: a stored flag is returned boxed, an absent one as None.
Bool(b) == [bool |-> b]

get_selection_state(selection, file_hash, target_path) ==
    IF <<file_hash, target_path>> \in DOMAIN selection
    THEN Bool(selection[<<file_hash, target_path>>])
    ELSE None

set_selection_state(selection, file_hash, target_path, selected) ==
    [k \in DOMAIN selection \cup {<<file_hash, target_path>>} |->
        IF k = <<file_hash, target_path>> THEN selected ELSE selection[k]]

(***************************************************************************)
(* core/extractor.py.                                                      *)
(*                                                                         *)
(* A file name is [stem, ext]; a path inside an archive is the sequence of *)
(* the names joined by "/".  An archive file on disk is described by what  *)
(* each handler of its handler list does with it, in list order:           *)
(*   [handler, members, fails]   the handler yields the members (and, for  *)
(*   an archive-named member, the walk of the member's own file) and then  *)
(*   raises iff fails; fails with no members is a failure to open.         *)
(* A member is [name, data, sub]: the entry's name, its bytes, and the     *)
(* archive file those bytes are (what the temporary copy of them holds).   *)
(***************************************************************************)
ARCHIVE_EXTENSIONS == {".zip", ".7z", ".rar", ".tar", ".exe", ".img", ".run"}

Name(stem, ext) == [stem |-> stem, ext |-> ext]

\* is_archive: the name ends with one of ARCHIVE_EXTENSIONS.
is_archive(filename) == filename.ext \in ARCHIVE_EXTENSIONS

ArchiveExtractor(depth) == [max_recursion_depth |-> depth]

Behaviour(handler, members, fails) ==
    [handler |-> handler, members |-> members, embedded |-> <<>>, fails |-> fails]

\* What _extract_carved does with a file: embedded are the copies it carves
\* out at the magic offsets it finds, in offset order; fails is a failure to
\* open or search the file.
Carving(embedded, fails) ==
    [handler |-> "_extract_carved", members |-> <<>>, embedded |-> embedded,
     fails |-> fails]

\* tempfile.NamedTemporaryFile(delete=False, suffix=...).name: a name of the
\* tempfile module's choosing that ends with the suffix.
tempname(suffix) == Name("tmp", suffix)

\* The bytes described by file, stored under a name.
at_path(file, name) == [handlers |-> file.handlers, name |-> name]

Member(name, data, sub) == [name |-> name, data |-> data, sub |-> sub]

\* What the generator yields: (path_in_archive, file_stream, size, is_nested_archive).
Item(path, data, size, is_nested) ==
    [path |-> path, data |-> data, size |-> size, is_nested |-> is_nested]

\* A handler failure after which the next handler is tried in every case.
handler_failed_continues(success) == "continue"

\* A handler failure that is passed on once entries were yielded.
handler_failed_reraises(success) == IF success THEN "raise" ELSE "continue"

\* The except clause of the handler loop: after a yielded entry the walk ends
\* with what it has, before one the next handler is tried.
handler_failed(success) == IF success THEN "break" ELSE "continue"

RECURSIVE extract_archive(_, _, _)
RECURSIVE handler_items(_, _, _)
RECURSIVE carved_items(_, _, _, _)
RECURSIVE embedded_items(_, _, _)
RECURSIVE try_handlers(_, _, _, _, _)

\* _extract_nested: the walk of the temporary copy one level deeper, every
\* path prefixed with the nested entry's name.
_extract_nested(self, temp_file, original_name, parent_recursion_depth) ==
    LET nested == extract_archive(self, temp_file, parent_recursion_depth + 1).items
    IN  [i \in 1..Len(nested) |->
            [nested[i] EXCEPT !.path = <<original_name>> \o nested[i].path]]

\* The loop over the entries of _extract_zip, _extract_7z, _extract_rar,
\* _extract_tar, _extract_libarchive: the entry itself, then, for an
\* archive-named entry below the depth limit, the entries of its walk.
handler_items(self, members, recursion_depth) ==
    IF members = <<>> THEN <<>>
    ELSE LET m == Head(members)
             is_nested == is_archive(m.name)
         IN  <<Item(<<m.name>>, m.data, Len(m.data), is_nested)>>
             \o (IF is_nested /\ recursion_depth < self.max_recursion_depth
                 THEN _extract_nested(self, at_path(m.sub, tempname(m.name.ext)),
                                      m.name, recursion_depth)
                 ELSE <<>>)
             \o handler_items(self, Tail(members), recursion_depth)

\* The copies _extract_carved would carve out of a file.
carved_of(file) ==
    IF file.handlers = <<>> THEN <<>>
    ELSE file.handlers[Len(file.handlers)].embedded

\* The loop of _try_extract_embedded_formats over the formats found at an
\* offset above 0 of a carved copy: each is walked one level deeper, with no
\* prefix, and the first that yields anything ends the search.
embedded_items(self, embedded, recursion_depth) ==
    IF embedded = <<>> THEN <<>>
    ELSE LET found == extract_archive(self, at_path(Head(embedded), tempname(".zip")),
                                      recursion_depth + 1).items
         IN  IF found # <<>> THEN found
             ELSE embedded_items(self, Tail(embedded), recursion_depth)

_try_extract_embedded_formats(self, carved_file, recursion_depth) ==
    embedded_items(self, carved_of(carved_file), recursion_depth)

\* The loop of _extract_carved over the offsets: the walk of the carved copy
\* one level deeper under the name of the file carved, or, when that walk
\* yields nothing, the formats embedded in the copy.
carved_items(self, archive_name, embedded, recursion_depth) ==
    IF embedded = <<>> THEN <<>>
    ELSE LET tmp == at_path(Head(embedded), tempname(".zip"))
             primary == _extract_nested(self, tmp, archive_name, recursion_depth)
         IN  (IF primary # <<>> THEN primary
              ELSE _try_extract_embedded_formats(self, tmp, recursion_depth))
             \o carved_items(self, archive_name, Tail(embedded), recursion_depth)

\* for handler in handlers: ... of extract_archive.  The result is what the
\* consumer sees: the entries yielded, and whether an exception came out.
try_handlers(self, archive_name, handlers, recursion_depth, success) ==
    IF handlers = <<>> THEN [items |-> <<>>, raised |-> FALSE, tried |-> <<>>]
    ELSE LET h == Head(handlers)
             yielded == IF h.handler = "_extract_carved"
                        THEN carved_items(self, archive_name, h.embedded, recursion_depth)
                        ELSE handler_items(self, h.members, recursion_depth)
             now_success == success \/ yielded # <<>>
             attempt == [handler |-> h.handler, yielded |-> yielded]
             rest == try_handlers(self, archive_name, Tail(handlers), recursion_depth,
                                  now_success)
             next_handler == [items  |-> yielded \o rest.items,
                              raised |-> rest.raised,
                              tried  |-> <<attempt>> \o rest.tried]
         IN  IF h.fails
             THEN CASE handler_failed(now_success) = "break" ->
                         [items |-> yielded, raised |-> FALSE, tried |-> <<attempt>>]
                    [] handler_failed(now_success) = "raise" ->
                         [items |-> yielded, raised |-> TRUE, tried |-> <<attempt>>]
                    [] OTHER -> next_handler
             ELSE IF yielded = <<>>
                  THEN next_handler
                  ELSE [items |-> yielded, raised |-> FALSE, tried |-> <<attempt>>]

\* A walk that does not look at the depth it is called at.
extract_archive_unbounded(self, file, recursion_depth) ==
    try_handlers(self, file.name, file.handlers, recursion_depth, FALSE)

\* extract_archive(archive_path, recursion_depth)
extract_archive(self, file, recursion_depth) ==
    IF recursion_depth > self.max_recursion_depth
    THEN [items |-> <<>>, raised |-> FALSE, tried |-> <<>>]
    ELSE try_handlers(self, file.name, file.handlers, recursion_depth, FALSE)

\* The archive files of the model.
NoFile == [handlers |-> <<>>]

ZipFile(members) ==
    [handlers |-> <<Behaviour("_extract_zip", members, FALSE),
                    Carving(<<>>, FALSE)>>]

\* PK\x03\x04 and garbage: zipfile cannot open it, carving finds the magic
\* at offset 0 and nothing in it.
CorruptZip ==
    [handlers |-> <<Behaviour("_extract_zip", <<>>, TRUE),
                    Carving(<<>>, FALSE)>>]

\* A path that cannot be opened: every handler fails to open it.
MissingFile ==
    [handlers |-> <<Behaviour("_extract_zip", <<>>, TRUE),
                    Carving(<<>>, TRUE)>>]

\* The bytes of the archive that holds content c below d nested archives: a
\* marker byte no plain content has, once per level, then the content.
RECURSIVE ChainBytes(_, _)
ChainBytes(d, c) == IF d = 0 THEN <<2>> \o c ELSE <<2>> \o ChainBytes(d - 1, c)

\* The archive that holds content c below d nested archives.
RECURSIVE Chain(_, _)
Chain(d, c) ==
    IF d = 0 THEN ZipFile(<<Member(Name("f", ".txt"), c, NoFile)>>)
    ELSE ZipFile(<<Member(Name("n", ".zip"), ChainBytes(d - 1, c), Chain(d - 1, c))>>)

(***************************************************************************)
(* core/scanner.py.                                                        *)
(*                                                                         *)
(* A source archive on disk is [path, mtime, size, file]; a target file is *)
(* [path, data, readable].                                                 *)
(***************************************************************************)
default_chunk_size == 2              \* HashCalculator's chunk_size, scaled down
default_max_recursion_depth == 1     \* ArchiveExtractor's max_recursion_depth, scaled down

\* The paths of the first source archive and of the target file.
ArchivePath == Name("a", ".zip")
TargetPath  == Name("t", ".bin")

\* datetime.now().timestamp()
now == [timestamp |-> "now"]

AppConfig(recheck_archives, auto_select_duplicates, min_file_size, partial_hash_threshold, partial_hash_size) ==
    [recheck_archives       |-> recheck_archives,
     auto_select_duplicates |-> auto_select_duplicates,
     min_file_size          |-> min_file_size,
     partial_hash_threshold |-> partial_hash_threshold,
     partial_hash_size      |-> partial_hash_size]

SourceScanner(cfg) ==
    [config    |-> cfg,
     hasher    |-> HashCalculator(cfg.partial_hash_threshold, cfg.partial_hash_size,
                                  default_chunk_size),
     extractor |-> ArchiveExtractor(default_max_recursion_depth)]

TargetScanner(cfg) ==
    [config |-> cfg,
     hasher |-> HashCalculator(cfg.partial_hash_threshold, cfg.partial_hash_size,
                               default_chunk_size)]

\* Path(path_in_archive).name
basename(path_in_archive) == path_in_archive[Len(path_in_archive)]

\* The body of the for loop of _scan_archive: entries below min_file_size
\* are skipped, the others hashed and made FileEntries.
RECURSIVE hash_entries(_, _, _)
hash_entries(self, archive_path, items) ==
    IF items = <<>> THEN <<>>
    ELSE LET it == Head(items)
             hashes == hash_stream(self.hasher, it.data, it.size)
         IN  (IF it.size < self.config.min_file_size THEN <<>>
              ELSE IF hashes[1] # None \/ hashes[2] # None
                   THEN <<FileEntry(hashes[1], hashes[2], basename(it.path), it.path,
                                    archive_path, it.size, it.is_nested)>>
                   ELSE <<>>)
             \o hash_entries(self, archive_path, Tail(items))

\* An archive removed after _find_archives listed it: path.stat() raises.
Vanished == [handlers |-> <<>>, vanished |-> TRUE]

\* _scan_archive with archives of no entries left unmarked: nothing stored,
\* nothing returned for them.
_scan_archive_unmarked_when_empty(self, files, archives, archive) ==
    LET ex == extract_archive(self.extractor, at_path(archive.file, archive.path), 0)
        file_entries == hash_entries(self, archive.path, ex.items)
    IN  IF file_entries = <<>>
        THEN [files |-> files, archives |-> archives, info |-> None, walked |-> TRUE]
        ELSE [files    |-> add_files_batch(files, file_entries),
              archives |-> update_archive(archives, archive.path, archive.mtime,
                                          archive.size, Len(file_entries), now),
              info     |-> ArchiveInfo(archive.path, archive.mtime, archive.size,
                                       None, Len(file_entries)),
              walked   |-> TRUE]

\* _scan_archive.  The result carries the tables as the call leaves them,
\* the ArchiveInfo returned (None when an exception came out instead) and
\* whether the walker was invoked.
_scan_archive(self, files, archives, archive) ==
    LET existing_info == get_archive_info(archives, archive.path) IN
    IF archive.file = Vanished
    THEN [files |-> files, archives |-> archives, info |-> None, walked |-> FALSE]
    ELSE
    IF /\ self.config.recheck_archives
       /\ existing_info # None
       /\ ~needs_rescan(existing_info, archive.mtime, archive.size)
    THEN [files |-> files, archives |-> archives, info |-> existing_info,
          walked |-> FALSE]
    ELSE LET ex == extract_archive(self.extractor, at_path(archive.file, archive.path), 0)
             file_entries == hash_entries(self, archive.path, ex.items)
         IN  IF ex.raised
             THEN [files |-> files, archives |-> archives, info |-> None,
                   walked |-> TRUE]
             ELSE [files    |-> add_files_batch(files, file_entries),
                   archives |-> update_archive(archives, archive.path, archive.mtime,
                                               archive.size, Len(file_entries), now),
                   info     |-> ArchiveInfo(archive.path, archive.mtime, archive.size,
                                            None, Len(file_entries)),
                   walked   |-> TRUE]

\* _find_archives: the files of the source directories with an archive name.
_find_archives(directory) == SelectSeq(directory, LAMBDA f : is_archive(f.path))

\* The loop of scan_source_directories over the archives found; infos is the
\* dictionary returned, seen the set of archives handed to the walker.
RECURSIVE scan_archives(_, _, _, _, _, _)
scan_archives(self, files, archives, todo, infos, seen) ==
    IF todo = <<>>
    THEN [files |-> files, archives |-> archives, infos |-> infos, walked |-> seen]
    ELSE LET a == Head(todo)
             r == _scan_archive(self, files, archives, a)
         IN  scan_archives(self, r.files, r.archives, Tail(todo),
                           IF r.info = None THEN infos
                           ELSE [p \in DOMAIN infos \cup {a.path} |->
                                    IF p = a.path THEN r.info ELSE infos[p]],
                           IF r.walked THEN seen \cup {a.path} ELSE seen)

scan_source_directories(self, files, archives, directory) ==
    scan_archives(self, files, archives, _find_archives(directory), <<>>, {})

\* _find_files: the target files of at least min_file_size bytes.
_find_files(self, directory) ==
    SelectSeq(directory, LAMBDA f : Len(f.data) >= self.config.min_file_size)

\* The selection flag of a match read with "or": a stored False falls
\* through to the default.
selected_for_falsy(self, stored_state) ==
    IF stored_state # None /\ stored_state.bool THEN TRUE
    ELSE self.config.auto_select_duplicates

\* selected = stored_state if stored_state is not None else auto_select_duplicates
selected_for(self, stored_state) ==
    IF stored_state # None THEN stored_state.bool
    ELSE self.config.auto_select_duplicates

\* One DuplicateMatch per source file found for the hash.
matches_for(self, selection, source_files, full_hash, target) ==
    [i \in 1..Len(source_files) |->
        DuplicateMatch(source_files[i], target.path, Len(target.data),
                       selected_for(self, get_selection_state(selection, full_hash,
                                                              target.path)))]

\* A large target file matched on its quick hash alone.
_check_file_quick_only(self, files, selection, target) ==
    LET hashes == hash_file(self.hasher, target.data, Len(target.data), target.readable)
    IN  IF hashes[1] # None
        THEN matches_for(self, selection, find_by_full_hash(files, hashes[1]),
                         hashes[1], target)
        ELSE IF hashes[2] # None
             THEN matches_for(self, selection, find_by_quick_hash(files, hashes[2]),
                              hashes[2], target)
             ELSE <<>>

\* _check_file: the matches of one target file; any exception gives none.
_check_file(self, files, selection, target) ==
    LET hashes == hash_file(self.hasher, target.data, Len(target.data), target.readable)
    IN  IF hashes[1] # None
        THEN matches_for(self, selection, find_by_full_hash(files, hashes[1]),
                         hashes[1], target)
        ELSE IF hashes[2] # None /\ check_quick_hash_exists(files, hashes[2])
             THEN LET full_hash == compute_full_hash_for_quick(self.hasher, target.data,
                                                               target.readable)
                  IN  IF full_hash # None
                      THEN matches_for(self, selection,
                                       find_by_full_hash(files, full_hash),
                                       full_hash, target)
                      ELSE <<>>
             ELSE <<>>

\* One call _check_file makes: its name, the hash it is about (the argument
\* of an Index lookup, the result of a hasher call), and whether its result
\* is truthy.
Called(call, hash, truthy) == [call |-> call, hash |-> hash, truthy |-> truthy]

\* A _check_file that computes the full hash of a large file before it asks
\* the Index for the quick hash.
_check_file_calls_eager(self, files, target) ==
    LET hashes == hash_file(self.hasher, target.data, Len(target.data), target.readable)
        full_hash == compute_full_hash_for_quick(self.hasher, target.data, target.readable)
    IN  IF hashes[1] = None /\ hashes[2] # None
        THEN <<Called("hash_file", hashes[2], TRUE),
               Called("compute_full_hash_for_quick", full_hash, full_hash # None),
               Called("check_quick_hash_exists", hashes[2],
                      check_quick_hash_exists(files, hashes[2]))>>
        ELSE <<Called("hash_file", hashes[1], hashes[1] # None)>>

\* The hasher and Index calls of _check_file for one target file, in the
\* order the code makes them.
_check_file_calls(self, files, target) ==
    LET hashes == hash_file(self.hasher, target.data, Len(target.data), target.readable)
        found(full_hash) ==
            <<Called("find_by_full_hash", full_hash,
                     find_by_full_hash(files, full_hash) # <<>>)>>
    IN  IF hashes[1] # None
        THEN <<Called("hash_file", hashes[1], TRUE)>> \o found(hashes[1])
        ELSE IF hashes[2] # None
             THEN LET exists == check_quick_hash_exists(files, hashes[2])
                      full_hash == compute_full_hash_for_quick(self.hasher, target.data,
                                                               target.readable)
                  IN  <<Called("hash_file", hashes[2], TRUE),
                        Called("check_quick_hash_exists", hashes[2], exists)>>
                      \o (IF exists
                          THEN <<Called("compute_full_hash_for_quick", full_hash,
                                        full_hash # None)>>
                               \o (IF full_hash # None THEN found(full_hash) ELSE <<>>)
                          ELSE <<>>)
             ELSE <<Called("hash_file", None, FALSE)>>

\* The calls of the loop of scan_target_directories, per file checked.
check_files_calls(self, files, directory) ==
    [i \in 1..Len(_find_files(self, directory)) |->
        _check_file_calls(self, files, _find_files(self, directory)[i])]

\* The loop of scan_target_directories: the matches of every file, in order.
RECURSIVE check_files(_, _, _, _)
check_files(self, files, selection, todo) ==
    IF todo = <<>> THEN <<>>
    ELSE _check_file(self, files, selection, Head(todo))
         \o check_files(self, files, selection, Tail(todo))

\* scan_target_directories: the matches grouped by source archive.
scan_target_directories(self, files, selection, directory) ==
    LET matches == check_files(self, files, selection, _find_files(self, directory))
    IN  [a \in {matches[i].source_file.source_archive : i \in 1..Len(matches)} |->
            SelectSeq(matches, LAMBDA m : m.source_file.source_archive = a)]

(***************************************************************************)
(* Values of the variables a specification does not use.                   *)
(***************************************************************************)
IdleHash == /\ hasher = None /\ h_data = <<>> /\ h_out = None
IdleDb   == /\ db_files = <<>> /\ db_archives = <<>> /\ db_selection = <<>>
IdleHist == /\ inserted = <<>> /\ upgraded = <<>>
IdleWalk == /\ w_file = None /\ w_out = None
IdleScan == /\ config = None /\ fs_archives = <<>> /\ fs_targets = <<>>
            /\ archive_infos = None /\ duplicates = None /\ walked = {}
IdleDel  == /\ disk = <<>> /\ trash = {} /\ d_out = None
IdleRun  == /\ s_pc = "" /\ s_todo = <<>> /\ _cancelled = FALSE /\ s_hist = None
IdleList == /\ x_file = None /\ x_handlers = None
IdleGen  == /\ g_self = None /\ g_stack = <<>> /\ g_temps = {} /\ g_state = ""
            /\ g_hist = None
IdleReview == /\ current_selections = None /\ selected_files = None
IdleApp  == /\ screen = "" /\ workers = <<>>
IdleOps  == /\ IdleDel /\ IdleRun /\ IdleList /\ IdleGen /\ IdleReview /\ IdleApp
            /\ db_persisted = <<>>

(***************************************************************************)
(* SpecHash: one HashCalculator, one input, hash_file and hash_stream.     *)
(***************************************************************************)
\* The longest byte string hashed: long enough for a partial_hash_size above
\* a chunk_size of two bytes, with bytes beyond it.
MaxStream == 4

InitHash ==
    /\ hasher \in {HashCalculator(t, p, c) :
                      t \in 0..(MaxStream + 1), p \in 1..MaxStream, c \in 1..MaxChunk}
    /\ h_data \in SeqsUpTo(Bytes, MaxStream)
    /\ h_out = None
    /\ IdleDb /\ IdleHist /\ IdleWalk /\ IdleScan /\ IdleOps
    /\ last_op = "init"

HashFile ==
    \E readable \in BOOLEAN :
        LET r == hash_file(hasher, h_data, Len(h_data), readable) IN
        /\ h_out' = [call |-> "hash_file", readable |-> readable, reads |-> <<>>,
                     full_hash |-> r[1], quick_hash |-> r[2]]
        /\ last_op' = "hash_file"
        /\ UNCHANGED <<opsVars, hasher, h_data, dbVars, histVars, walkVars, scanVars>>

HashStream ==
    LET r == hash_stream(hasher, h_data, Len(h_data)) IN
    /\ h_out' = [call |-> "hash_stream", readable |-> TRUE, reads |-> <<>>,
                 full_hash |-> r[1], quick_hash |-> r[2]]
    /\ last_op' = "hash_stream"
    /\ UNCHANGED <<opsVars, hasher, h_data, dbVars, histVars, walkVars, scanVars>>

\* The ways a stream can hand out n bytes in reads of at most chunk_size
\* bytes: the sizes of its reads, in order.
RECURSIVE ReadSizes(_, _)
ReadSizes(n, chunk_size) ==
    IF n = 0 THEN {<<>>}
    ELSE UNION {{<<k>> \o rest : rest \in ReadSizes(n - k, chunk_size)} :
                   k \in 1..(IF n < chunk_size THEN n ELSE chunk_size)}

\* hash_stream on a stream whose reads return fewer bytes than asked for.
HashStreamShortReads ==
    \E reads \in ReadSizes(Len(h_data), hasher.chunk_size) \ {<<>>} :
        LET r == hash_stream_reads(hasher, h_data, Len(h_data), reads) IN
        /\ h_out' = [call |-> "hash_stream", readable |-> TRUE, reads |-> reads,
                     full_hash |-> r[1], quick_hash |-> r[2]]
        /\ last_op' = "hash_stream"
        /\ UNCHANGED <<opsVars, hasher, h_data, dbVars, histVars, walkVars, scanVars>>

NextHash == HashFile \/ HashStream \/ HashStreamShortReads

SpecHash == InitHash /\ [][NextHash]_vars

\* C3: a file or stream of exactly partial_hash_threshold bytes gets a quick
\* hash (it is large); one of a byte less gets a full hash and no quick hash
\* (it is small).
C3_ThresholdBoundary ==
    (h_out # None /\ h_out.readable) =>
        /\ Len(h_data) = hasher.partial_hash_threshold => h_out.quick_hash # None
        /\ Len(h_data) = hasher.partial_hash_threshold - 1 =>
               (h_out.quick_hash = None /\ h_out.full_hash # None)

\* hash_file was called on a file of exactly the threshold size and gave a
\* quick hash and no full hash.
C3_Witness ==
    /\ h_out # None
    /\ h_out.call = "hash_file"
    /\ h_out.readable
    /\ hasher.partial_hash_threshold > 0
    /\ Len(h_data) = hasher.partial_hash_threshold
    /\ h_out.quick_hash # None
    /\ h_out.full_hash = None

(***************************************************************************)
(* SpecDb: add_file, add_files_batch and update_full_hash on the files     *)
(* table, over a small universe of FileEntries.                            *)
(***************************************************************************)
MaxBatch == 2              \* longest list handed to add_files_batch

DbArchives == {Name("a", ".zip")}
DbPaths == {<<Name("f", ".txt")>>, <<Name("g", ".txt")>>}
DbKeys == DbArchives \X DbPaths
DbFullHashes == {hexdigest(<<0>>), hexdigest(<<1>>)}
DbQuickHashes == {hexdigest(<<0>>)}

\* What a scan stores: a full hash alone (a small file) or a quick hash
\* alone (a large file whose full hash is still to come).
DbEntries ==
    {FileEntry(h[1], h[2], basename(k[2]), k[2], k[1], 1, FALSE) :
        h \in {<<f, None>> : f \in DbFullHashes} \cup {<<None, q>> : q \in DbQuickHashes},
        k \in DbKeys}

\* The lists handed to add_files_batch: the entries of one archive's scan.
DbBatches ==
    UNION {[1..n -> {e \in DbEntries : e.source_archive = a}] :
              n \in 0..MaxBatch, a \in DbArchives}

RowsOf(files, key) == SelectSeq(files, LAMBDA r : Key(r) = key)

InitDb ==
    /\ db_files = <<>>
    /\ db_archives = <<>>
    /\ db_selection = <<>>
    /\ inserted = [k \in DbKeys |-> None]
    /\ upgraded = [k \in DbKeys |-> None]
    /\ IdleHash /\ IdleWalk /\ IdleScan /\ IdleOps
    /\ last_op = [op |-> "init"]

AddFile ==
    \E file_entry \in DbEntries :
        /\ db_files' = add_file(db_files, file_entry)
        /\ inserted' = [inserted EXCEPT ![Key(file_entry)] = file_entry]
        /\ upgraded' = [upgraded EXCEPT ![Key(file_entry)] = None]
        /\ last_op' = [op |-> "add_file", entry |-> file_entry,
                       replaced |-> RowsOf(db_files, Key(file_entry))]
        /\ UNCHANGED <<opsVars, db_archives, db_selection, hashVars, walkVars, scanVars>>

\* The entry of the batch that is inserted last for the key, if any.
LastOf(batch, key, before) ==
    LET at == {i \in 1..Len(batch) : Key(batch[i]) = key}
    IN  IF at = {} THEN before
        ELSE batch[CHOOSE i \in at : \A j \in at : j <= i]

AddFilesBatch ==
    \E file_entries \in DbBatches :
        /\ db_files' = add_files_batch(db_files, file_entries)
        /\ inserted' = [k \in DbKeys |-> LastOf(file_entries, k, inserted[k])]
        /\ upgraded' = [k \in DbKeys |->
                           IF \E i \in 1..Len(file_entries) : Key(file_entries[i]) = k
                           THEN None ELSE upgraded[k]]
        /\ last_op' = [op |-> "add_files_batch"]
        /\ UNCHANGED <<opsVars, db_archives, db_selection, hashVars, walkVars, scanVars>>

UpdateFullHash ==
    \E key \in DbKeys, full_hash \in DbFullHashes :
        /\ db_files' = update_full_hash(db_files, key[1], key[2], full_hash)
        /\ upgraded' = [upgraded EXCEPT ![key] =
                           IF inserted[key] = None THEN None ELSE full_hash]
        /\ last_op' = [op |-> "update_full_hash", key |-> key, full_hash |-> full_hash]
        /\ UNCHANGED <<opsVars, inserted, db_archives, db_selection, hashVars, walkVars, scanVars>>

NextDb == AddFile \/ AddFilesBatch \/ UpdateFullHash

SpecDb == InitDb /\ [][NextDb]_vars

\* The record the history expects for a key: the entry inserted last, with
\* the full hash a later update_full_hash gave it.
Expected(key) ==
    IF upgraded[key] = None THEN inserted[key]
    ELSE [inserted[key] EXCEPT !.full_hash = upgraded[key]]

\* C4: the files table holds at most one row per (source_archive,
\* path_in_archive); that row is the entry inserted last for the key (with the
\* full hash of a later update_full_hash); and a lookup by full hash returns
\* only rows that carry that hash now, so a replaced entry's hash finds nothing
\* of its key.
C4_OneRecordPerKey ==
    /\ \A i, j \in 1..Len(db_files) : Key(db_files[i]) = Key(db_files[j]) => i = j
    /\ \A k \in DbKeys :
           RowsOf(db_files, k) = IF inserted[k] = None THEN <<>> ELSE <<Expected(k)>>
    /\ \A h \in DbFullHashes :
           LET found == find_by_full_hash(db_files, h)
           IN  \A i \in 1..Len(found) : Expected(Key(found[i])).full_hash = h

\* add_file has just replaced a row of the same key that carried another
\* full hash, and the first hash no longer finds a row of the key.
C4_Witness ==
    /\ last_op.op = "add_file"
    /\ Len(last_op.replaced) = 1
    /\ last_op.replaced[1].full_hash # None
    /\ last_op.entry.full_hash # None
    /\ last_op.replaced[1].full_hash # last_op.entry.full_hash
    /\ RowsOf(db_files, Key(last_op.entry)) = <<last_op.entry>>
    /\ RowsOf(find_by_full_hash(db_files, last_op.replaced[1].full_hash),
              Key(last_op.entry)) = <<>>

\* C5: update_full_hash(source_archive, path_in_archive, h) on a row that has
\* only its quick hash q: afterwards find_by_full_hash(h) and
\* find_by_quick_hash(q) both return the row of that key, and every other row
\* of the table is as it was.
C5_UpgradeRoundTrip ==
    [][\A key \in DbKeys, h \in DbFullHashes :
          (/\ last_op' = [op |-> "update_full_hash", key |-> key, full_hash |-> h]
           /\ \E i \in 1..Len(db_files) :
                 /\ Key(db_files[i]) = key
                 /\ db_files[i].full_hash = None
                 /\ db_files[i].quick_hash # None)
          => LET old == RowsOf(db_files, key)[1]
                 new == [old EXCEPT !.full_hash = h]
             IN  /\ RowsOf(find_by_full_hash(db_files', h), key) = <<new>>
                 /\ RowsOf(find_by_quick_hash(db_files', old.quick_hash), key) = <<new>>
                 /\ Len(db_files') = Len(db_files)
                 /\ \A i \in 1..Len(db_files) :
                        Key(db_files[i]) # key => db_files'[i] = db_files[i]
      ]_vars

\* A row inserted with a quick hash alone has been given its full hash, while
\* another row of the same archive is in the table.
C5_Witness ==
    /\ last_op.op = "update_full_hash"
    /\ inserted[last_op.key] # None
    /\ inserted[last_op.key].full_hash = None
    /\ inserted[last_op.key].quick_hash # None
    /\ RowsOf(find_by_full_hash(db_files, last_op.full_hash), last_op.key) # <<>>
    /\ \E i \in 1..Len(db_files) :
          /\ Key(db_files[i]) # last_op.key
          /\ db_files[i].source_archive = last_op.key[1]
          /\ db_files[i].full_hash # last_op.full_hash


\* What an archive file holds: every entry of its first handler with its path,
\* bytes and the number of archive-named entries it lies below, to any depth.
RECURSIVE Holds(_, _)
Holds(file, depth) ==
    IF file.handlers = <<>> THEN {}
    ELSE LET members == file.handlers[1].members IN
         UNION {{[path |-> <<members[i].name>>, data |-> members[i].data, depth |-> depth]}
                    \cup (IF is_archive(members[i].name)
                          THEN {[e EXCEPT !.path = <<members[i].name>> \o e.path] :
                                    e \in Holds(members[i].sub, depth + 1)}
                          ELSE {})
                : i \in 1..Len(members)}

(***************************************************************************)
(* SpecWalk: one archive file, walked once from depth 0 by an extractor of *)
(* any depth limit up to one above the default.  The file is any list of   *)
(* up to MaxHandlers handlers that list entries, followed by the carving   *)
(* handler; its nested entries are corrupt, interrupted, images with a zip *)
(* inside, or zips nested to beyond the depth limit.                       *)
(***************************************************************************)
MaxHandlers == 2

PlainMember == Member(Name("f", ".txt"), <<0>>, NoFile)

NestedMember(sub) == Member(Name("n", ".zip"), <<1>>, sub)

ImageMember(sub) == Member(Name("d", ".img"), <<1, 1>>, sub)

\* A zip whose handler stops with an exception after its one entry.
InterruptedZip ==
    [handlers |-> <<Behaviour("_extract_zip", <<PlainMember>>, TRUE),
                    Carving(<<>>, FALSE)>>]

\* A file only carving gets something out of: a zip behind other bytes.
ImageWithZip == [handlers |-> <<Carving(<<ZipFile(<<PlainMember>>)>>, FALSE)>>]

InnerFiles == {CorruptZip, MissingFile, InterruptedZip, ZipFile(<<PlainMember>>)}

NestedFiles ==
    {CorruptZip, InterruptedZip}
        \cup {Chain(d, <<0>>) : d \in 0..(default_max_recursion_depth + 1)}

WalkMembers ==
    {<<>>, <<PlainMember>>, <<ImageMember(ImageWithZip)>>}
        \cup {<<NestedMember(sub)>> : sub \in NestedFiles}

\* What the carving handler finds in the top-level file.
WalkCarvings ==
    {Carving(<<>>, FALSE), Carving(<<>>, TRUE),
     Carving(<<ZipFile(<<PlainMember>>)>>, FALSE),
     Carving(<<CorruptZip, ZipFile(<<PlainMember>>)>>, FALSE),
     Carving(<<ImageWithZip>>, FALSE)}

HandlerAt(i) == IF i = 1 THEN "_extract_7z"
                ELSE IF i = 2 THEN "_extract_zip"
                ELSE "_extract_libarchive"

\* The files with n entry handlers followed by the carving handler.
WalkFiles(n) ==
    {[handlers |-> [i \in 1..n |-> Behaviour(HandlerAt(i), ms[i], fs[i])] \o <<carving>>] :
        ms \in [1..n -> WalkMembers], fs \in [1..n -> BOOLEAN], carving \in WalkCarvings}

InitWalk ==
    /\ \E n \in 0..MaxHandlers : w_file \in WalkFiles(n)
    /\ w_out = None
    /\ IdleHash /\ IdleDb /\ IdleHist /\ IdleScan /\ IdleOps
    /\ last_op = [op |-> "init"]

\* list(ArchiveExtractor(max_recursion_depth).extract_archive(path)): the
\* generator consumed to its end.
Walk ==
    \E max_recursion_depth \in 0..(default_max_recursion_depth + 1) :
        /\ w_out = None
        /\ w_out' = extract_archive(ArchiveExtractor(max_recursion_depth),
                                    at_path(w_file, ArchivePath), 0)
        /\ last_op' = [op |-> "extract_archive",
                       max_recursion_depth |-> max_recursion_depth]
        /\ UNCHANGED <<opsVars, w_file, hashVars, dbVars, histVars, scanVars>>

NextWalk == Walk

SpecWalk == InitWalk /\ [][NextWalk]_vars

\* No handler of the file yields an entry.
NothingYielded(file) ==
    \A i \in 1..Len(file.handlers) :
        file.handlers[i].members = <<>> /\ file.handlers[i].embedded = <<>>

\* C10: extract_archive never passes an exception to its caller: whatever the
\* handlers of the file do (fail to open it, all of them fail, one fails after
\* it yielded entries), the generator ends, and it ends with zero entries when
\* no handler yielded one.
C10_WalkerNeverRaises ==
    w_out # None =>
        /\ ~w_out.raised
        /\ NothingYielded(w_file) => w_out.items = <<>>

\* A handler failed after it had yielded entries, and the walk ended with them.
C10_Witness ==
    /\ w_out # None
    /\ Len(w_file.handlers) >= 1
    /\ w_file.handlers[1].fails
    /\ w_file.handlers[1].members # <<>>
    /\ w_out.items # <<>>


\* p is a proper prefix of q.
ProperPrefix(p, q) == Len(p) < Len(q) /\ SubSeq(q, 1, Len(p)) = p

\* The entries the handlers of the walked file list, each with the number of
\* nested archives it lies below.
HeldByWalked ==
    UNION {Holds([handlers |-> <<w_file.handlers[h]>>], 0) : h \in 1..Len(w_file.handlers)}

\* C11: no entry more than max_recursion_depth levels below the top-level
\* archive is yielded; a nested archive at the depth limit is yielded and
\* nothing of its contents is; with max_recursion_depth 0 only entries of the
\* top-level archive itself are yielded.
C11_RecursionBound ==
    w_out # None =>
        LET max == last_op.max_recursion_depth
            items == w_out.items
        IN  /\ \A i \in 1..Len(items) : Len(items[i].path) - 1 <= max
            /\ \A e \in HeldByWalked :
                  e.depth > max => \A i \in 1..Len(items) : items[i].path # e.path
            /\ \A i, j \in 1..Len(items) :
                  (items[i].is_nested /\ Len(items[i].path) - 1 = max)
                      => ~ProperPrefix(items[i].path, items[j].path)
            /\ max = 0 => \A i \in 1..Len(items) : Len(items[i].path) = 1

\* A nested archive yielded at the depth limit of a file that holds entries
\* below it.
C11_Witness ==
    /\ w_out # None
    /\ last_op.max_recursion_depth = 1
    /\ \E i \in 1..Len(w_out.items) :
          /\ w_out.items[i].is_nested
          /\ Len(w_out.items[i].path) = 2
    /\ \E e \in HeldByWalked : e.depth = 2

\* The nested archive entries a walk yielded before its i-th item.
YieldedNestedBefore(items, i) ==
    {items[j].path : j \in {k \in 1..(i - 1) : items[k].is_nested}}

\* C12: every entry yielded from inside a nested archive has the path
\* <name of the nested archive entry>/<path inside that archive>, composed
\* outermost-first at every level: each proper prefix of its path is the path
\* of a nested archive entry that was yielded before it.
C12_NestedPathProvenance ==
    w_out # None =>
        LET items == w_out.items
        IN  \A i \in 1..Len(items) :
                <<items[i].path[1]>> \in YieldedNestedBefore(items, i)
                    => \A k \in 1..(Len(items[i].path) - 1) :
                           SubSeq(items[i].path, 1, k) \in YieldedNestedBefore(items, i)

\* C18: the handlers are tried in list order; a handler that raised or ended
\* before yielding an entry is followed by the next handler; once a handler
\* has yielded an entry no other handler is started, also when that handler
\* fails mid-stream, and the entries of the walk are the entries of that one
\* handler.
C18_HandlerCommit ==
    w_out # None =>
        LET tried == w_out.tried
            handlers == w_file.handlers
        IN  /\ Len(tried) <= Len(handlers)
            /\ \A k \in 1..Len(tried) : tried[k].handler = handlers[k].handler
            /\ \A k \in 1..(Len(tried) - 1) : tried[k].yielded = <<>>
            /\ Len(tried) < Len(handlers) =>
                  /\ tried # <<>>
                  /\ tried[Len(tried)].yielded # <<>>
            /\ w_out.items = IF tried = <<>> THEN <<>> ELSE tried[Len(tried)].yielded

\* A first handler that raised before yielding, a second handler that yielded
\* an entry and then failed, and a third handler that was never started.
C18_Witness ==
    /\ w_out # None
    /\ Len(w_file.handlers) = 3
    /\ Len(w_out.tried) = 2
    /\ w_file.handlers[1].fails
    /\ w_out.tried[1].yielded = <<>>
    /\ w_file.handlers[2].fails
    /\ w_out.tried[2].yielded # <<>>
    /\ w_out.items = w_out.tried[2].yielded

(***************************************************************************)
(* SpecScan: one run over a fixed corpus.  The source directory holds one  *)
(* archive with one file of content c below d levels of nested archives    *)
(* (and one file that is no archive); the target directory holds one file. *)
(* scan_source_directories and scan_target_directories are called in any   *)
(* order, any number of times, with one configuration.                     *)
(***************************************************************************)
SourceFile(path, mtime, size, file) ==
    [path |-> path, mtime |-> mtime, size |-> size, file |-> file]

TargetFile(path, data, readable) ==
    [path |-> path, data |-> data, readable |-> readable]

InitScan ==
    /\ \E d \in 0..(default_max_recursion_depth + 1), c \in Contents :
          fs_archives = <<SourceFile(ArchivePath, 1, 1, Chain(d, c)),
                          SourceFile(Name("r", ".txt"), 1, 1, NoFile)>>
    /\ \E t \in Contents, readable \in BOOLEAN :
          fs_targets = <<TargetFile(TargetPath, t, readable)>>
    /\ \E min_file_size \in 0..1, threshold \in 1..MaxLen, psize \in 1..MaxLen :
          config = AppConfig(FALSE, TRUE, min_file_size, threshold, psize)
    /\ db_files = <<>> /\ db_archives = <<>> /\ db_selection = <<>>
    /\ archive_infos = None /\ duplicates = None /\ walked = {}
    /\ IdleHash /\ IdleHist /\ IdleWalk /\ IdleOps
    /\ last_op = [op |-> "init"]

\* SourceScanner(config, db).scan_source_directories()
ScanSource ==
    LET r == scan_source_directories(SourceScanner(config), db_files, db_archives,
                                     fs_archives)
    IN  /\ db_files' = r.files
        /\ db_archives' = r.archives
        /\ archive_infos' = [returned |-> r.infos]
        /\ walked' = r.walked
        /\ last_op' = [op |-> "scan_source_directories"]
        /\ UNCHANGED <<opsVars, db_selection, config, fs_archives, fs_targets, duplicates,
                       hashVars, histVars, walkVars>>

\* TargetScanner(config, db).scan_target_directories()
ScanTarget ==
    /\ duplicates' = [returned |-> scan_target_directories(TargetScanner(config), db_files,
                                                           db_selection, fs_targets)]
    /\ last_op' = [op |-> "scan_target_directories",
                   calls |-> check_files_calls(TargetScanner(config), db_files, fs_targets)]
    /\ UNCHANGED <<opsVars, dbVars, config, fs_archives, fs_targets, archive_infos, walked,
                   hashVars, histVars, walkVars>>

NextScan == ScanSource \/ ScanTarget

SpecScan == InitScan /\ [][NextScan]_vars

\* The target scan was the last call and a source scan came before it.
SourceThenTarget ==
    /\ last_op.op = "scan_target_directories"
    /\ archive_infos # None

\* The result of the target scan pairs the stored record of (archive, path)
\* with the target file.
Paired(archive, path, target) ==
    /\ archive \in DOMAIN duplicates.returned
    /\ \E i \in 1..Len(duplicates.returned[archive]) :
          LET m == duplicates.returned[archive][i] IN
          /\ m.source_file.source_archive = archive
          /\ m.source_file.path_in_archive = path
          /\ m.target_path = target.path
          /\ \E j \in 1..Len(db_files) : db_files[j] = m.source_file

\* C1: after a source scan followed by a target scan, every entry a source
\* archive holds below at most max_recursion_depth nested archives, of a size
\* of at least min_file_size, is paired with every readable target file of the
\* same bytes, whether the size is below the partial hash threshold or not.
C1_Completeness ==
    SourceThenTarget =>
        \A a \in 1..Len(fs_archives), t \in 1..Len(fs_targets) :
            \A e \in Holds(fs_archives[a].file, 0) :
                ( /\ is_archive(fs_archives[a].path)
                  /\ e.depth <= default_max_recursion_depth
                  /\ Len(e.data) >= config.min_file_size
                  /\ fs_targets[t].readable
                  /\ fs_targets[t].data = e.data )
                => Paired(fs_archives[a].path, e.path, fs_targets[t])

\* A large file at the deepest level walked is paired with its copy.
C1_Witness ==
    /\ SourceThenTarget
    /\ \E e \in Holds(fs_archives[1].file, 0) :
          /\ e.depth = default_max_recursion_depth
          /\ ~is_archive(e.path[Len(e.path)])
          /\ Len(e.data) >= config.partial_hash_threshold
          /\ Len(e.data) > config.partial_hash_size
          /\ fs_targets[1].data = e.data
          /\ Paired(fs_archives[1].path, e.path, fs_targets[1])


\* The quick hash hash_file gives for a target file.
TargetQuickHash(target) ==
    hash_file(TargetScanner(config).hasher, target.data, Len(target.data),
              target.readable)[2]

\* The pairs (stored record, target file) of two large files of different
\* bytes: the record of entry e of the archive, with its quick hash, and the
\* readable target file t.
LargeDifferentPairs ==
    {p \in [row : 1..Len(db_files), e : Holds(fs_archives[1].file, 0),
            t : 1..Len(fs_targets)] :
        /\ Key(db_files[p.row]) = <<fs_archives[1].path, p.e.path>>
        /\ fs_targets[p.t].readable
        /\ Len(p.e.data) >= config.partial_hash_threshold
        /\ Len(fs_targets[p.t].data) >= config.partial_hash_threshold
        /\ p.e.data # fs_targets[p.t].data}

\* C2: two files of at least partial_hash_threshold bytes whose bytes differ
\* are never reported as duplicates of each other by a source scan followed by
\* a target scan, and their quick hashes differ exactly when their first
\* partial_hash_size bytes differ.
C2_LargeDifferentFiles ==
    SourceThenTarget =>
        \A p \in LargeDifferentPairs :
            /\ ~Paired(fs_archives[1].path, p.e.path, fs_targets[p.t])
            /\ (db_files[p.row].quick_hash # TargetQuickHash(fs_targets[p.t]))
                   <=> (Take(p.e.data, config.partial_hash_size)
                            # Take(fs_targets[p.t].data, config.partial_hash_size))

\* Two large files that differ only after the first partial_hash_size bytes:
\* one quick hash, and no match.
C2_Witness ==
    /\ SourceThenTarget
    /\ \E p \in LargeDifferentPairs :
          /\ Take(p.e.data, config.partial_hash_size)
                 = Take(fs_targets[p.t].data, config.partial_hash_size)
          /\ db_files[p.row].quick_hash = TargetQuickHash(fs_targets[p.t])
          /\ ~Paired(fs_archives[1].path, p.e.path, fs_targets[p.t])

\* C2 as stated: two large files whose bytes differ anywhere have different
\* quick hashes and are never reported as duplicates of each other.
C2_AsStated ==
    SourceThenTarget =>
        \A p \in LargeDifferentPairs :
            /\ db_files[p.row].quick_hash # TargetQuickHash(fs_targets[p.t])
            /\ ~Paired(fs_archives[1].path, p.e.path, fs_targets[p.t])


(***************************************************************************)
(* SpecSelect: a corpus of one archive entry and its copy in the target    *)
(* directory, scanned again and again while selection states are stored    *)
(* for the target file, under its full hash or under its quick hash.       *)
(***************************************************************************)
InitSelect ==
    /\ \E c \in Contents :
          /\ fs_archives = <<SourceFile(ArchivePath, 1, 1, Chain(0, c))>>
          /\ fs_targets = <<TargetFile(TargetPath, c, TRUE)>>
    /\ \E auto_select_duplicates \in BOOLEAN, threshold \in 1..MaxLen :
          config = AppConfig(FALSE, auto_select_duplicates, 0, threshold, 1)
    /\ db_files = <<>> /\ db_archives = <<>> /\ db_selection = <<>>
    /\ archive_infos = None /\ duplicates = None /\ walked = {}
    /\ IdleHash /\ IdleHist /\ IdleWalk /\ IdleOps
    /\ last_op = [op |-> "init"]

\* The hashes a selection state can be stored under for a target file.
SelectionHashes(target) ==
    {_compute_full_hash(TargetScanner(config).hasher, target.data),
     _compute_partial_hash(TargetScanner(config).hasher, target.data)}

\* db.set_selection_state(file_hash, target_path, selected)
SetSelectionState ==
    \E t \in 1..Len(fs_targets), selected \in BOOLEAN :
        \E file_hash \in SelectionHashes(fs_targets[t]) :
            /\ db_selection' = set_selection_state(db_selection, file_hash,
                                                   fs_targets[t].path, selected)
            /\ last_op' = [op |-> "set_selection_state"]
            /\ UNCHANGED <<opsVars, db_files, db_archives, scanVars, hashVars, histVars, walkVars>>

NextSelect == ScanSource \/ ScanTarget \/ SetSelectionState

SpecSelect == InitSelect /\ [][NextSelect]_vars

\* Every match the last target scan reported, with its target file.
ReportedMatches ==
    {p \in [archive : DOMAIN duplicates.returned,
            i : 1..(Len(db_files) * Len(fs_targets)), t : 1..Len(fs_targets)] :
        /\ p.i \in 1..Len(duplicates.returned[p.archive])
        /\ duplicates.returned[p.archive][p.i].target_path = fs_targets[p.t].path}

\* C7: a target scan reports every match of target file t with the selection
\* flag stored for (full hash of t, t) when one is stored (False stays False
\* whatever auto_select_duplicates is) and with auto_select_duplicates when
\* none is.
C7_SelectionMemory ==
    last_op.op = "scan_target_directories" =>
        \A p \in ReportedMatches :
            LET key == <<[xxh3 |-> fs_targets[p.t].data], fs_targets[p.t].path>>
                m   == duplicates.returned[p.archive][p.i]
            IN  IF key \in DOMAIN db_selection
                THEN m.selected_for_deletion = db_selection[key]
                ELSE m.selected_for_deletion = config.auto_select_duplicates

\* A match reported deselected although duplicates are selected by default.
C7_Witness ==
    /\ last_op.op = "scan_target_directories"
    /\ config.auto_select_duplicates
    /\ \E p \in ReportedMatches :
          /\ <<[xxh3 |-> fs_targets[p.t].data], fs_targets[p.t].path>> \in DOMAIN db_selection
          /\ ~db_selection[<<[xxh3 |-> fs_targets[p.t].data], fs_targets[p.t].path>>]
          /\ ~duplicates.returned[p.archive][p.i].selected_for_deletion


(***************************************************************************)
(* SpecRescan: a source directory of two archives scanned again and again. *)
(* b.zip never changes; a.zip is replaced or touched between scans, and    *)
(* every change of it shows in its mtime or its size.  An archive is       *)
(* corrupt, unreadable, removed, or a zip of one or two files.             *)
(***************************************************************************)
MaxStamp == 2

EmptyEntry == Member(Name("f", ".txt"), <<>>, NoFile)
OtherEntry == Member(Name("g", ".txt"), <<0>>, NoFile)

ValidFiles == {ZipFile(<<EmptyEntry>>), ZipFile(<<EmptyEntry, OtherEntry>>)}

CorruptFiles == {CorruptZip, MissingFile}

RescanFiles == ValidFiles \cup CorruptFiles \cup {Vanished}

OtherPath == Name("b", ".zip")

InitRescan ==
    /\ \E fa \in RescanFiles, fb \in {CorruptZip, ZipFile(<<OtherEntry>>)} :
          fs_archives = <<SourceFile(ArchivePath, 1, 1, fa), SourceFile(OtherPath, 1, 1, fb)>>
    /\ fs_targets = <<>>
    /\ \E recheck_archives \in BOOLEAN, min_file_size \in 0..1 :
          config = AppConfig(recheck_archives, TRUE, min_file_size, 1, 1)
    /\ db_files = <<>> /\ db_archives = <<>> /\ db_selection = <<>>
    /\ archive_infos = None /\ duplicates = None /\ walked = {}
    /\ IdleHash /\ IdleHist /\ IdleWalk /\ IdleOps
    /\ last_op = [op |-> "init"]

\* Between two scans a.zip is written again, touched or removed: what stat()
\* and the walker find at the next scan is new, with a later mtime or, within
\* one tick of the clock, a larger size, so that no (mtime, size) comes back
\* with other bytes behind it.
ModifyArchive ==
    \E file \in RescanFiles, mtime \in 1..MaxStamp, size \in 1..MaxStamp :
        /\ \/ mtime > fs_archives[1].mtime
           \/ mtime = fs_archives[1].mtime /\ size > fs_archives[1].size
        /\ fs_archives' = [fs_archives EXCEPT ![1] = SourceFile(ArchivePath, mtime, size, file)]
        /\ last_op' = [op |-> "modify_archive"]
        /\ UNCHANGED <<opsVars, dbVars, config, fs_targets, archive_infos, duplicates, walked,
                       hashVars, histVars, walkVars>>

NextRescan == ScanSource \/ ModifyArchive

SpecRescan == InitRescan /\ [][NextRescan]_vars

\* The archives of the directory that stat() finds.
Present == {i \in 1..Len(fs_archives) : fs_archives[i].file # Vanished}

\* mtime or size of the archive is not what its stored record says, or it has
\* no stored record.
ChangedOrNew(archive) ==
    \/ archive.path \notin DOMAIN db_archives
    \/ db_archives[archive.path].mtime # archive.mtime
    \/ db_archives[archive.path].size # archive.size

NormalCount(file) ==
    Cardinality({j \in 1..Len(file.handlers[1].members) :
                    Len(file.handlers[1].members[j].data) >= config.min_file_size})

C9_CorruptArchiveUnmarked ==
    last_op.op = "scan_source_directories" =>
        \A i \in 1..Len(fs_archives) :
            fs_archives[i].file = CorruptZip =>
                /\ fs_archives[i].path \notin DOMAIN archive_infos.returned
                /\ get_archive_info(db_archives, fs_archives[i].path) = None

(***************************************************************************)
(* SpecRun: the worker of ScanningScreen.  _do_scan connects, runs the     *)
(* source scan, looks at _cancelled, runs the target scan, looks at        *)
(* _cancelled and reports.  One step is one round of a scanner's loop; in  *)
(* a round one call of the Index may raise sqlite3.Error.  The Cancel      *)
(* button can be pressed between any two steps.  The source directory      *)
(* holds two archives and the target directory two files.                  *)
(***************************************************************************)
SourceCalls == {"get_archive_info", "add_files_batch", "update_archive"}
TargetCalls == {"find_by_full_hash", "check_quick_hash_exists", "get_selection_state"}

\* The classes "except Exception" catches.
except_Exception(raised) == raised \in {"Exception", "OSError", "sqlite3.Error"}

\* What a call of _scan_archive leaves in the tables and what comes out of
\* it.
scanned(files, archives, info, raised) ==
    [files |-> files, archives |-> archives, info |-> info, raised |-> raised]

\* _scan_archive on an Index whose call named failing raises; r is what the
\* call does on an Index that works.
_scan_archive_failing(self, files, archives, archive, failing, r) ==
    IF archive.file = Vanished THEN scanned(files, archives, None, "OSError")
    ELSE IF self.config.recheck_archives /\ failing = "get_archive_info"
         THEN scanned(files, archives, None, "sqlite3.Error")
    ELSE IF r.info = None THEN scanned(files, archives, None, "Exception")
    ELSE IF ~r.walked THEN scanned(files, archives, r.info, "")
    ELSE IF failing = "add_files_batch"
         THEN scanned(files, archives, None, "sqlite3.Error")
    ELSE IF failing = "update_archive"
         THEN scanned(r.files, archives, None, "sqlite3.Error")
    ELSE scanned(r.files, r.archives, r.info, "")

_scan_archive_db(self, files, archives, archive, failing) ==
    _scan_archive_failing(self, files, archives, archive, failing,
                          _scan_archive(self, files, archives, archive))

\* The try block of the loop of scan_source_directories and its except
\* clause, for the outcome r of _scan_archive.
try_scan_archive(infos, archive, failing, r) ==
    [files    |-> r.files,
     archives |-> r.archives,
     infos    |-> IF r.raised # "" THEN infos
                  ELSE [p \in DOMAIN infos \cup {archive.path} |->
                           IF p = archive.path THEN r.info ELSE infos[p]],
     raised   |-> IF except_Exception(r.raised) THEN "" ELSE r.raised,
     failed   |-> IF r.raised = "sqlite3.Error" THEN {failing} ELSE {}]

\* One round of the loop of scan_source_directories.
scan_archives_round(self, files, archives, infos, archive, failing) ==
    try_scan_archive(infos, archive, failing,
                     _scan_archive_db(self, files, archives, archive, failing))

\* The Index calls _check_file makes for a target file.
index_calls(self, files, target) ==
    LET hashes == hash_file(self.hasher, target.data, Len(target.data), target.readable)
        quick == hashes[1] = None /\ hashes[2] # None
        full_hash == IF hashes[1] # None THEN hashes[1]
                     ELSE IF quick /\ check_quick_hash_exists(files, hashes[2])
                          THEN compute_full_hash_for_quick(self.hasher, target.data,
                                                           target.readable)
                          ELSE None
    IN  (IF quick THEN {"check_quick_hash_exists"} ELSE {})
        \cup (IF full_hash # None THEN {"find_by_full_hash"} ELSE {})
        \cup (IF full_hash # None /\ find_by_full_hash(files, full_hash) # <<>>
              THEN {"get_selection_state"} ELSE {})

\* _check_file on an Index whose call named failing raises: the try block
\* and its except clause.
_check_file_db(self, files, selection, target, failing) ==
    LET raised == IF failing \in index_calls(self, files, target)
                  THEN "sqlite3.Error" ELSE ""
    IN  [matches |-> IF raised # "" THEN <<>>
                     ELSE _check_file(self, files, selection, target),
         raised  |-> IF except_Exception(raised) THEN "" ELSE raised,
         failed  |-> IF raised = "sqlite3.Error" THEN {failing} ELSE {}]

\* The matches added to duplicates_by_archive.
grouped(duplicates_by_archive, matches) ==
    LET found == {matches[i].source_file.source_archive : i \in 1..Len(matches)}
    IN  [a \in DOMAIN duplicates_by_archive \cup found |->
            (IF a \in DOMAIN duplicates_by_archive THEN duplicates_by_archive[a] ELSE <<>>)
            \o SelectSeq(matches, LAMBDA m : m.source_file.source_archive = a)]

RunArchives ==
    {ZipFile(<<OtherEntry>>), ZipFile(<<EmptyEntry, OtherEntry>>), CorruptZip}

InitRun ==
    /\ fs_archives \in {<<SourceFile(ArchivePath, 1, 1, fa), SourceFile(OtherPath, 1, 1, fb)>> :
                           fa \in RunArchives, fb \in RunArchives}
    /\ fs_targets \in {<<TargetFile(TargetPath, t, TRUE), TargetFile(Name("u", ".bin"), <<0>>, TRUE)>> :
                           t \in {<<0>>, <<1>>}}
    /\ \E recheck_archives \in BOOLEAN, threshold \in 1..MaxLen :
          config = AppConfig(recheck_archives, TRUE, 0, threshold, 1)
    /\ db_files = <<>> /\ db_archives = <<>> /\ db_selection = <<>>
    /\ archive_infos = None /\ duplicates = None /\ walked = {}
    /\ s_pc = "connect" /\ s_todo = <<>> /\ _cancelled = FALSE
    /\ s_hist = [failed |-> {}, after_cancel |-> 0, at_cancel |-> <<>>]
    /\ IdleHash /\ IdleHist /\ IdleWalk /\ IdleDel /\ IdleList /\ db_persisted = <<>>
    /\ IdleGen /\ IdleReview /\ IdleApp
    /\ last_op = [op |-> "init"]

\* The rounds started since the Cancel button was pressed.
Counted == [s_hist EXCEPT !.after_cancel = IF _cancelled THEN @ + 1 ELSE @]

\* db.connect() and the start of the source scan; a failure to connect ends
\* _do_scan in its except clause.
Connect ==
    \E ok \in BOOLEAN :
        /\ s_pc = "connect"
        /\ s_pc' = IF ok THEN "source_scan" ELSE "error"
        /\ s_todo' = IF ok THEN _find_archives(fs_archives) ELSE <<>>
        /\ archive_infos' = IF ok THEN [returned |-> <<>>] ELSE None
        /\ s_hist' = IF ok THEN s_hist ELSE [s_hist EXCEPT !.failed = {"connect"}]
        /\ last_op' = [op |-> "connect"]
        /\ UNCHANGED <<genVars, uiVars, _cancelled, dbVars, config, fs_archives, fs_targets, duplicates,
                       walked, disk, trash, d_out, db_persisted, listVars, hashVars, histVars,
                       walkVars>>

\* One round of the loop of scan_source_directories.
ScanArchive ==
    \E failing \in SourceCalls \cup {""} :
        /\ s_pc = "source_scan"
        /\ s_todo # <<>>
        /\ \E r \in {scan_archives_round(SourceScanner(config), db_files, db_archives,
                                         archive_infos.returned, Head(s_todo), failing)} :
            /\ db_files' = r.files
            /\ db_archives' = r.archives
            /\ archive_infos' = [returned |-> r.infos]
            /\ s_todo' = IF r.raised = "" THEN Tail(s_todo) ELSE <<>>
            /\ s_pc' = IF r.raised = "" THEN s_pc ELSE "error"
            /\ s_hist' = [Counted EXCEPT !.failed = @ \cup r.failed]
            /\ last_op' = [op |-> "_scan_archive", failing |-> failing]
            /\ UNCHANGED <<genVars, uiVars, _cancelled, db_selection, config, fs_archives, fs_targets,
                           duplicates, walked, disk, trash, d_out, db_persisted, listVars,
                           hashVars, histVars, walkVars>>

\* scan_source_directories has returned: _do_scan looks at _cancelled and
\* starts the target scan.
SourceScanned ==
    /\ s_pc = "source_scan"
    /\ s_todo = <<>>
    /\ s_pc' = IF _cancelled THEN "returned" ELSE "target_scan"
    /\ s_todo' = IF _cancelled THEN <<>> ELSE _find_files(TargetScanner(config), fs_targets)
    /\ duplicates' = IF _cancelled THEN duplicates ELSE [returned |-> <<>>]
    /\ last_op' = [op |-> "scan_source_directories"]
    /\ UNCHANGED <<genVars, uiVars, _cancelled, s_hist, dbVars, config, fs_archives, fs_targets,
                   archive_infos, walked, disk, trash, d_out, db_persisted, listVars, hashVars,
                   histVars, walkVars>>

\* One round of the loop of scan_target_directories.
CheckFile ==
    \E failing \in TargetCalls \cup {""} :
        /\ s_pc = "target_scan"
        /\ s_todo # <<>>
        /\ \E r \in {_check_file_db(TargetScanner(config), db_files, db_selection,
                                    Head(s_todo), failing)} :
            /\ duplicates' = [returned |-> grouped(duplicates.returned, r.matches)]
            /\ s_todo' = IF r.raised = "" THEN Tail(s_todo) ELSE <<>>
            /\ s_pc' = IF r.raised = "" THEN s_pc ELSE "error"
            /\ s_hist' = [Counted EXCEPT !.failed = @ \cup r.failed]
            /\ last_op' = [op |-> "_check_file", failing |-> failing]
            /\ UNCHANGED <<genVars, uiVars, _cancelled, dbVars, config, fs_archives, fs_targets,
                           archive_infos, walked, disk, trash, d_out, db_persisted, listVars,
                           hashVars, histVars, walkVars>>

\* scan_target_directories has returned: _do_scan looks at _cancelled and
\* queues the completion.
TargetScanned ==
    /\ s_pc = "target_scan"
    /\ s_todo = <<>>
    /\ s_pc' = IF _cancelled THEN "returned" ELSE "complete"
    /\ last_op' = [op |-> "scan_target_directories"]
    /\ UNCHANGED <<genVars, uiVars, s_todo, _cancelled, s_hist, dbVars, scanVars, disk, trash, d_out,
                   db_persisted, listVars, hashVars, histVars, walkVars>>

\* on_button_pressed for cancel-btn while the scan runs.
Cancel ==
    /\ s_pc \in {"connect", "source_scan", "target_scan"}
    /\ ~_cancelled
    /\ _cancelled' = TRUE
    /\ s_hist' = [s_hist EXCEPT !.at_cancel = db_files]
    /\ last_op' = [op |-> "on_button_pressed"]
    /\ UNCHANGED <<genVars, uiVars, s_pc, s_todo, dbVars, scanVars, disk, trash, d_out, db_persisted, listVars,
                   hashVars, histVars, walkVars>>

NextRun == Connect \/ ScanArchive \/ SourceScanned \/ CheckFile \/ TargetScanned \/ Cancel

SpecRun == InitRun /\ [][NextRun]_vars

\* C13: a failure of the Index during a source scan or a target scan comes
\* out of the scan and halts the run: once get_archive_info, add_files_batch,
\* update_archive, find_by_full_hash, check_quick_hash_exists or
\* get_selection_state has raised, _do_scan is in its except clause.
C13_StoreFailureHalts ==
    s_hist.failed \cap (SourceCalls \cup TargetCalls) # {} => s_pc = "error"

\* C15: once the Cancel button was pressed the scan finishes at most the
\* archive or file it is at and starts no other, and the records committed
\* before stay in the Index.
C15_CancelStopsScan ==
    _cancelled =>
        /\ s_hist.after_cancel <= 1
        /\ \A i \in 1..Len(s_hist.at_cancel) :
              \E j \in 1..Len(db_files) : db_files[j] = s_hist.at_cancel[i]

(***************************************************************************)
(* SpecTxn: the files table as the connection sees it (db_files) and as    *)
(* the database file holds it (db_persisted).  sqlite3 opens a transaction *)
(* before the first INSERT of a call; conn.commit() ends it; no call of    *)
(* DatabaseManager rolls back.                                             *)
(***************************************************************************)
\* cursor.executemany over the rows: the rows before the one that fails are
\* inserted; fails_at = 0 when no row fails.
executemany(files, file_entries, fails_at) ==
    IF fails_at = 0
    THEN [files |-> add_files_batch(files, file_entries), raised |-> FALSE]
    ELSE [files |-> add_files_batch(files, SubSeq(file_entries, 1, fails_at - 1)),
          raised |-> TRUE]

\* conn.commit(): what the connection sees becomes the content of the file.
commit(files) == files

\* sqlite3.connect on the database file: uncommitted rows are gone.
connect(persisted) == persisted

InitTxn ==
    /\ db_files = <<>>
    /\ db_persisted = <<>>
    /\ db_archives = <<>>
    /\ db_selection = <<>>
    /\ inserted = [k \in DbKeys |-> None]
    /\ upgraded = [k \in DbKeys |-> None]
    /\ IdleHash /\ IdleWalk /\ IdleScan /\ IdleDel /\ IdleRun /\ IdleList
    /\ IdleGen /\ IdleReview /\ IdleApp
    /\ last_op = [op |-> "init"]

\* add_files_batch, with a row that cannot be inserted or without one.
TxnAddFilesBatch ==
    \E file_entries \in DbBatches, fails_at \in 0..MaxBatch :
        LET r == executemany(db_files, file_entries, fails_at) IN
        /\ fails_at <= Len(file_entries)
        /\ db_files' = r.files
        /\ db_persisted' = IF r.raised THEN db_persisted ELSE commit(r.files)
        /\ inserted' = IF r.raised THEN inserted
                       ELSE [k \in DbKeys |-> LastOf(file_entries, k, inserted[k])]
        /\ last_op' = [op |-> "add_files_batch", raised |-> r.raised]
        /\ UNCHANGED <<genVars, uiVars, upgraded, db_archives, db_selection, disk, trash, d_out, runVars,
                       listVars, hashVars, walkVars, scanVars>>

\* add_file: one INSERT OR REPLACE and a commit.
TxnAddFile ==
    \E file_entry \in DbEntries :
        /\ db_files' = add_file(db_files, file_entry)
        /\ db_persisted' = commit(db_files')
        /\ inserted' = [inserted EXCEPT ![Key(file_entry)] = file_entry]
        /\ last_op' = [op |-> "add_file", raised |-> FALSE]
        /\ UNCHANGED <<genVars, uiVars, upgraded, db_archives, db_selection, disk, trash, d_out, runVars,
                       listVars, hashVars, walkVars, scanVars>>

\* close() and connect(): the next run of the program.
Reconnect ==
    /\ db_files' = connect(db_persisted)
    /\ last_op' = [op |-> "connect", raised |-> FALSE]
    /\ UNCHANGED <<genVars, uiVars, db_persisted, histVars, db_archives, db_selection, disk, trash,
                   d_out, runVars, listVars, hashVars, walkVars, scanVars>>

NextTxn == TxnAddFilesBatch \/ TxnAddFile \/ Reconnect

SpecTxn == InitTxn /\ [][NextTxn]_vars

\* The rows of a table that no call that returned has inserted.
Unacknowledged(files) ==
    {i \in 1..Len(files) : files[i] # inserted[Key(files[i])]}

\* C14: every mutating call is transactional: when it has returned, its
\* effect is in the database file; when add_files_batch has failed part-way,
\* no record of the batch is seen by the connection or gets into the database
\* file, also not through a later mutating call that succeeds.
C14_TransactionalPerCall ==
    /\ (last_op.op \in {"add_file", "add_files_batch"} /\ ~last_op.raised)
           => \A i \in 1..Len(db_files) : db_files[i] \in {db_persisted[j] : j \in 1..Len(db_persisted)}
    /\ Unacknowledged(db_files) = {}
    /\ Unacknowledged(db_persisted) = {}

\* Records of a failed batch are in the database file.
C14_FailedBatchPersisted == Unacknowledged(db_persisted) # {}

(***************************************************************************)
(* SpecList: the handler list of extract_archive (extractor.py 167-214),   *)
(* as a function of the file's suffix, of its first 262 bytes and of the   *)
(* optional libraries that are installed.                                  *)
(*                                                                         *)
(* The magic bytes are modelled by what the tests of                       *)
(* _detect_magic_handlers look at: the signature the bytes start with and  *)
(* whether "ustar" stands at offset 257.                                   *)
(***************************************************************************)
Capabilities == [HAS_7Z : BOOLEAN, HAS_RAR : BOOLEAN, HAS_LIBARCHIVE : BOOLEAN, HAS_MSI : BOOLEAN, HAS_PEFILE : BOOLEAN]

Signatures == {"PK", "7z", "Rar", "compressed", "OLE", "MZ", ""}

Magics ==
    [starts : Signatures, ustar : BOOLEAN, readable : {TRUE}]
        \cup {[starts |-> "", ustar |-> FALSE, readable |-> FALSE]}

Suffixes ==
    {".zip", ".jar", ".7z", ".rar", ".tar", ".tgz", ".msi", ".appimage", ".run",
     ".exe", ".deb", ".iso", ".dmg", ".bin"}

when(condition, handler) == IF condition THEN <<handler>> ELSE <<>>

\* _detect_magic_handlers
_detect_magic_handlers(magic, caps) ==
    IF ~magic.readable THEN <<>>
    ELSE when(magic.starts = "PK", "_extract_zip")
         \o when(magic.starts = "7z", "_extract_7z")
         \o when(magic.starts = "Rar", "_extract_rar")
         \o when(magic.starts = "compressed", "_extract_tar")
         \o when(magic.starts = "compressed" /\ caps.HAS_LIBARCHIVE, "_extract_libarchive")
         \o when(magic.ustar, "_extract_tar")
         \o when(magic.starts = "OLE" /\ caps.HAS_MSI, "_extract_msi")
         \o when(magic.starts = "OLE" /\ caps.HAS_LIBARCHIVE, "_extract_libarchive")
         \o when(magic.starts = "MZ" /\ caps.HAS_PEFILE, "_extract_exe")
         \o when(magic.starts = "MZ" /\ caps.HAS_7Z, "_extract_7z")
         \o when(magic.starts = "MZ", "_extract_zip")
         \o when(magic.starts = "MZ" /\ caps.HAS_LIBARCHIVE, "_extract_libarchive")

\* ext_handlers: the if/elif chain over the suffix.
ext_handlers(suffix, caps) ==
    IF suffix \in {".zip", ".jar"} THEN <<"_extract_zip">>
    ELSE IF suffix = ".7z" /\ caps.HAS_7Z THEN <<"_extract_7z">>
    ELSE IF suffix = ".rar" /\ caps.HAS_RAR THEN <<"_extract_rar">>
    ELSE IF suffix \in {".tar", ".tgz"} THEN <<"_extract_tar">>
    ELSE IF suffix = ".msi"
         THEN when(caps.HAS_MSI, "_extract_msi")
              \o when(caps.HAS_LIBARCHIVE, "_extract_libarchive")
    ELSE IF suffix \in {".appimage", ".run"} THEN <<"_extract_appimage">>
    ELSE IF suffix = ".exe"
         THEN when(caps.HAS_PEFILE, "_extract_exe")
              \o when(caps.HAS_7Z, "_extract_7z")
              \o <<"_extract_zip">>
              \o when(caps.HAS_LIBARCHIVE, "_extract_libarchive")
    ELSE IF suffix \in {".deb", ".iso"} THEN when(caps.HAS_LIBARCHIVE, "_extract_libarchive")
    ELSE <<>>

Range(seq) == {seq[i] : i \in 1..Len(seq)}

\* A combination that keeps every handler as often as it is listed.
repeated(candidates, handlers) ==
    handlers \o candidates

\* for h in magic_handlers + ext_handlers: if h not in handlers: append
RECURSIVE unique(_, _)
unique(candidates, handlers) ==
    IF candidates = <<>> THEN handlers
    ELSE unique(Tail(candidates),
                IF Head(candidates) \in Range(handlers) THEN handlers
                ELSE Append(handlers, Head(candidates)))

\* The handler list of extract_archive.
handler_list(file, caps) ==
    LET magic_handlers == _detect_magic_handlers(file.magic, caps)
        combined == unique(magic_handlers \o ext_handlers(file.suffix, caps), <<>>)
        generic == IF caps.HAS_LIBARCHIVE /\ "_extract_libarchive" \notin Range(combined)
                   THEN Append(combined, "_extract_libarchive") ELSE combined
    IN  IF "_extract_carved" \notin Range(generic)
        THEN Append(generic, "_extract_carved") ELSE generic

InitList ==
    /\ x_file \in [suffix : Suffixes, magic : Magics, caps : Capabilities]
    /\ x_handlers = None
    /\ IdleHash /\ IdleDb /\ IdleHist /\ IdleWalk /\ IdleScan /\ IdleDel /\ IdleRun
    /\ IdleGen /\ IdleReview /\ IdleApp
    /\ db_persisted = <<>>
    /\ last_op = [op |-> "init"]

\* The first lines of extract_archive, up to the handler loop.
BuildHandlers ==
    /\ x_handlers = None
    /\ x_handlers' = [handlers |-> handler_list(x_file, x_file.caps)]
    /\ last_op' = [op |-> "extract_archive"]
    /\ UNCHANGED <<genVars, uiVars, x_file, disk, trash, d_out, db_persisted, runVars, hashVars, dbVars,
                   histVars, walkVars, scanVars>>

NextList == BuildHandlers

SpecList == InitList /\ [][NextList]_vars

\* The handlers the magic bytes and the suffix of x_file select.
MagicDetected == Range(_detect_magic_handlers(x_file.magic, x_file.caps))
ExtensionImplied == Range(ext_handlers(x_file.suffix, x_file.caps))

\* i comes before j in a list of n handlers.
Before(i, j, n) == i \in 1..n /\ j \in 1..n /\ i < j

\* C19: the handler list has no duplicates and is ordered: magic-detected
\* handlers, then extension-implied handlers, then the libarchive fallback,
\* then the carving fallback, which is always last.  The libarchive handler
\* comes before an extension-implied handler only when the magic bytes
\* themselves selected it.
C19_HandlerOrder ==
    x_handlers # None =>
        LET H == x_handlers.handlers
            n == Len(H)
        IN  /\ \A i, j \in 1..n : H[i] = H[j] => i = j
            /\ n >= 1 /\ H[n] = "_extract_carved"
            /\ \A i, j \in 1..n : (Before(i, j, n) /\ H[j] \in MagicDetected)
                                      => H[i] \in MagicDetected
            /\ \A i, j \in 1..n : (Before(i, j, n) /\ H[j] \in MagicDetected \cup ExtensionImplied)
                                      => H[i] \in MagicDetected \cup ExtensionImplied
            /\ MagicDetected \cup ExtensionImplied \subseteq Range(H)
            /\ x_file.caps.HAS_LIBARCHIVE => "_extract_libarchive" \in Range(H)
            /\ ("_extract_libarchive" \in Range(H) \ (MagicDetected \cup ExtensionImplied))
                   => /\ x_file.caps.HAS_LIBARCHIVE
                      /\ H[n - 1] = "_extract_libarchive"
            /\ \A i, j \in 1..n :
                  (Before(i, j, n) /\ H[i] = "_extract_libarchive" /\ H[j] \in ExtensionImplied)
                      => "_extract_libarchive" \in MagicDetected

\* A list of all four kinds: a magic-detected handler, an extension-implied
\* one, the libarchive fallback and the carving fallback.
C19_Witness ==
    /\ x_handlers # None
    /\ Len(x_handlers.handlers) = 4
    /\ x_handlers.handlers[1] \in MagicDetected \ ExtensionImplied
    /\ x_handlers.handlers[2] \in ExtensionImplied \ MagicDetected
    /\ x_handlers.handlers[3] = "_extract_libarchive"
    /\ "_extract_libarchive" \notin MagicDetected \cup ExtensionImplied
    /\ x_handlers.handlers[4] = "_extract_carved"

\* C19 as stated: the libarchive handler never comes before an
\* extension-implied handler.
C19_AsStated ==
    x_handlers # None =>
        LET H == x_handlers.handlers
        IN  \A i, j \in 1..Len(H) :
                Before(i, j, Len(H)) /\ H[j] \in ExtensionImplied
                    => H[i] # "_extract_libarchive"

\* The position of a handler in the list, 0 when it is not in it.
IndexOf(H, handler) ==
    IF handler \in Range(H) THEN CHOOSE i \in 1..Len(H) : H[i] = handler ELSE 0

\* C20: for a file named *.exe the zip reader is tried before the
\* PE-resource reader and before every other installer reader, whatever
\* libraries are installed.
C20_ExeZipFirst ==
    (x_handlers # None /\ x_file.suffix = ".exe") =>
        LET H == x_handlers.handlers
        IN  /\ "_extract_zip" \in Range(H)
            /\ \A installer \in {"_extract_exe", "_extract_msi", "_extract_appimage"} :
                  installer \in Range(H) => IndexOf(H, "_extract_zip") < IndexOf(H, installer)

(***************************************************************************)
(* core/file_ops.py: FileOperations.delete_files.                          *)
(*                                                                         *)
(* A path names a file that can be removed ("file"), a file whose removal  *)
(* the operating system refuses ("locked"), or nothing ("missing").        *)
(***************************************************************************)
MaxPaths == 3              \* longest list of paths handed to delete_files

Paths == {"p1", "p2"}
FileStates == {"file", "locked", "missing"}

\* Path(filepath).exists()
exists(files, filepath) == files[filepath] # "missing"

\* Path.unlink() and send2trash(): the file is gone from its path, or the
\* call raises.
removal(files, filepath) ==
    CASE files[filepath] = "file" -> [raised |-> "", files |-> [files EXCEPT ![filepath] = "missing"]]
      [] files[filepath] = "locked" -> [raised |-> "PermissionError", files |-> files]
      [] OTHER -> [raised |-> "FileNotFoundError", files |-> files]

\* The reason recorded by the two except clauses.
failure_reason(raised) ==
    IF raised = "PermissionError" THEN "Permission denied" ELSE raised

\* One round of the loop that does nothing for a path without a file.
delete_files_step_skips_missing(st, filepath, use_trash, dry_run, HAS_SEND2TRASH) ==
    LET succeed(files, trashed) ==
            [files |-> files, trash |-> trashed,
             successful |-> Append(st.successful, filepath), failures |-> st.failures]
        fail(reason) ==
            [st EXCEPT !.failures = Append(st.failures, <<filepath, reason>>)]
        r == removal(st.files, filepath)
    IN  IF ~exists(st.files, filepath) THEN st
        ELSE IF dry_run THEN succeed(st.files, st.trash)
        ELSE IF use_trash /\ ~HAS_SEND2TRASH THEN fail("send2trash library not available")
        ELSE IF r.raised # "" THEN fail(failure_reason(r.raised))
        ELSE succeed(r.files, IF use_trash THEN st.trash \cup {filepath} ELSE st.trash)

\* One round of the loop that removes the file also in a dry run.
delete_files_step_ignores_dry_run(st, filepath, use_trash, dry_run, HAS_SEND2TRASH) ==
    LET r == removal(st.files, filepath)
    IN  IF r.raised # ""
        THEN [st EXCEPT !.failures = Append(st.failures, <<filepath, failure_reason(r.raised)>>)]
        ELSE [st EXCEPT !.files = r.files, !.successful = Append(st.successful, filepath)]

\* One round of the loop of delete_files, on the disk and the two lists.
delete_files_step(st, filepath, use_trash, dry_run, HAS_SEND2TRASH) ==
    LET succeed(files, trashed) ==
            [files |-> files, trash |-> trashed,
             successful |-> Append(st.successful, filepath), failures |-> st.failures]
        fail(reason) ==
            [st EXCEPT !.failures = Append(st.failures, <<filepath, reason>>)]
        r == removal(st.files, filepath)
    IN  IF dry_run
        THEN IF exists(st.files, filepath)
             THEN succeed(st.files, st.trash)
             ELSE fail("File not found")
        ELSE IF use_trash
             THEN IF ~HAS_SEND2TRASH
                  THEN fail("send2trash library not available")
                  ELSE IF r.raised # ""
                       THEN fail(failure_reason(r.raised))
                       ELSE succeed(r.files, st.trash \cup {filepath})
             ELSE IF exists(st.files, filepath)
                  THEN IF r.raised # ""
                       THEN fail(failure_reason(r.raised))
                       ELSE succeed(r.files, st.trash)
                  ELSE fail("File not found")

RECURSIVE delete_files_loop(_, _, _, _, _)
delete_files_loop(st, filepaths, use_trash, dry_run, HAS_SEND2TRASH) ==
    IF filepaths = <<>> THEN st
    ELSE delete_files_loop(
             delete_files_step(st, Head(filepaths), use_trash, dry_run, HAS_SEND2TRASH),
             Tail(filepaths), use_trash, dry_run, HAS_SEND2TRASH)

\* delete_files(filepaths, use_trash, dry_run)
delete_files(files, trashed, filepaths, use_trash, dry_run, HAS_SEND2TRASH) ==
    delete_files_loop(
        [files |-> files, trash |-> trashed, successful |-> <<>>, failures |-> <<>>],
        filepaths, use_trash, dry_run, HAS_SEND2TRASH)

(***************************************************************************)
(* SpecDelete: delete_files called again and again on one disk.            *)
(***************************************************************************)
InitDelete ==
    /\ disk \in [Paths -> FileStates]
    /\ trash = {}
    /\ d_out = None
    /\ db_persisted = <<>>
    /\ IdleHash /\ IdleDb /\ IdleHist /\ IdleWalk /\ IdleScan /\ IdleRun /\ IdleList
    /\ IdleGen /\ IdleReview /\ IdleApp
    /\ last_op = [op |-> "init"]

DeleteFiles ==
    \E filepaths \in SeqsUpTo(Paths, MaxPaths), use_trash \in BOOLEAN,
       dry_run \in BOOLEAN, HAS_SEND2TRASH \in BOOLEAN :
        LET r == delete_files(disk, trash, filepaths, use_trash, dry_run, HAS_SEND2TRASH) IN
        /\ disk' = r.files
        /\ trash' = r.trash
        /\ d_out' = [successful |-> r.successful, failures |-> r.failures]
        /\ last_op' = [op |-> "delete_files", filepaths |-> filepaths,
                       use_trash |-> use_trash, dry_run |-> dry_run,
                       HAS_SEND2TRASH |-> HAS_SEND2TRASH]
        /\ UNCHANGED <<genVars, uiVars, db_persisted, runVars, listVars, hashVars, dbVars, histVars, walkVars, scanVars>>

NextDelete == DeleteFiles

SpecDelete == InitDelete /\ [][NextDelete]_vars

\* How often x occurs in the sequence s.
Count(s, x) == Cardinality({i \in 1..Len(s) : s[i] = x})

\* The paths of the list of failures.
FailedPaths(failures) == [i \in 1..Len(failures) |-> failures[i][1]]

\* C16: delete_files handles every input path: every occurrence of a path in
\* the input is in exactly one of the two returned lists, and a failure has
\* a reason; a path without a file is reported as a failure while the paths
\* after it are still handled.
C16_EveryPathAccounted ==
    [][last_op'.op = "delete_files" =>
          LET filepaths == last_op'.filepaths
              successful == d_out'.successful
              failed == FailedPaths(d_out'.failures)
          IN  /\ Len(successful) + Len(failed) = Len(filepaths)
              /\ \A p \in Paths :
                    Count(successful, p) + Count(failed, p) = Count(filepaths, p)
              /\ \A i \in 1..Len(d_out'.failures) : d_out'.failures[i][2] # ""
              /\ \A i \in 1..Len(filepaths) :
                    (~exists(disk, filepaths[i]) /\ ~exists(disk', filepaths[i]))
                        => /\ Count(successful, filepaths[i]) = 0
                           /\ Count(failed, filepaths[i]) = Count(filepaths, filepaths[i])]_vars

\* A batch whose first path has no file and whose second path was removed.
C16_Witness ==
    /\ last_op.op = "delete_files"
    /\ ~last_op.dry_run
    /\ Len(last_op.filepaths) = 3
    /\ d_out.failures # <<>>
    /\ d_out.failures[1] = <<last_op.filepaths[1], "File not found">>
    /\ d_out.successful = <<last_op.filepaths[2]>>
    /\ last_op.filepaths[3] = last_op.filepaths[2]
    /\ Len(d_out.failures) = 2

\* C17: a dry run changes nothing: no file is removed or moved whatever
\* use_trash is, every path with a file is reported as successful and still
\* has its file, every path without one is reported as a failure.
C17_DryRunChangesNothing ==
    [][(last_op'.op = "delete_files" /\ last_op'.dry_run) =>
          LET filepaths == last_op'.filepaths
              successful == d_out'.successful
              failed == FailedPaths(d_out'.failures)
          IN  /\ disk' = disk
              /\ trash' = trash
              /\ successful = SelectSeq(filepaths, LAMBDA p : exists(disk, p))
              /\ failed = SelectSeq(filepaths, LAMBDA p : ~exists(disk, p))
              /\ \A i \in 1..Len(successful) : exists(disk', successful[i])]_vars

\* A dry run with use_trash set over a path with a file and a path without.
C17_Witness ==
    /\ last_op.op = "delete_files"
    /\ last_op.dry_run
    /\ last_op.use_trash
    /\ d_out.successful # <<>>
    /\ d_out.failures # <<>>
    /\ exists(disk, d_out.successful[1])

(***************************************************************************)
(* SpecGen: the generator extract_archive returns, run frame by frame.     *)
(*                                                                         *)
(* A frame is one active generator function: extract_archive, an entry     *)
(* handler (_extract_zip, _extract_7z, ...), _extract_carved or            *)
(* _try_extract_embedded_formats.  _extract_nested only prefixes the paths *)
(* of the extract_archive frame it starts one level deeper and is part of  *)
(* that frame.  A frame holds the file it works on, the recursion_depth it *)
(* was called with, its loop index k, its flag (success, found_at_offset,  *)
(* found_any), the temporary file it holds (0 for none), where it is, and  *)
(* how the generator it iterated last ended.                               *)
(*                                                                         *)
(* A yield passes the entry through every frame to the consumer in one     *)
(* step.  Writing a temporary copy can fail (a full disk): the file was    *)
(* created with delete=False and the with block only closes it.            *)
(***************************************************************************)
MaxFrameDepth == default_max_recursion_depth + 3

\* A carved copy that starts at offset 0: the bytes of the file carved.
Same == [same |-> TRUE]

carved_copy(file, payload) == IF payload = Same THEN file ELSE payload

\* The formats _try_extract_embedded_formats looks at: those found at an
\* offset above 0.
embedded_formats(file) == SelectSeq(carved_of(file), LAMBDA payload : payload # Same)

\* A depth check that lets every call through.
too_deep_never(self, recursion_depth) == FALSE

\* if recursion_depth > self.max_recursion_depth: return
too_deep(self, recursion_depth) == recursion_depth > self.max_recursion_depth

Frame(fn, file, h, recursion_depth) ==
    [fn |-> fn, file |-> file, h |-> h, depth |-> recursion_depth, k |-> 1,
     flag |-> FALSE, tmp |-> 0, pc |-> "start", child |-> ""]

\* The frame replaces the innermost frame.
Set(stack, frame) == [stack EXCEPT ![Len(stack)] = frame]

\* The innermost generator ends, by return or by an exception; the frame that
\* iterated it sees how.
Pop(stack, outcome) ==
    LET rest == SubSeq(stack, 1, Len(stack) - 1)
    IN  IF rest = <<>> THEN rest ELSE [rest EXCEPT ![Len(rest)].child = outcome]

\* An entry passes through the frame on its way to the consumer: success,
\* found_any, and found_at_offset inside the primary loop, become True.
passed(frame) ==
    IF frame.fn = "_extract_carved" /\ frame.pc # "primary" THEN frame
    ELSE [frame EXCEPT !.flag = TRUE]

Yield(stack) == [i \in 1..Len(stack) |-> passed(stack[i])]

\* How the generator stands once the stack is the given one.
state_of(stack, outcome) ==
    IF stack # <<>> THEN "running"
    ELSE IF outcome = "raised" THEN "raised" ELSE "finished"

\* The file a corrupt zip is: zipfile cannot open it, and carving finds its
\* PK magic at offset 0, so the carved copy is the file again.
SelfCarved ==
    [handlers |-> <<Behaviour("_extract_zip", <<>>, TRUE), Carving(<<Same>>, FALSE)>>]

\* A file with two magics, the copy at the first a corrupt zip.
TwoOffsets == [handlers |-> <<Carving(<<SelfCarved, ZipFile(<<PlainMember>>)>>, FALSE)>>]

GenFiles ==
    {Chain(d, <<0>>) : d \in 0..(default_max_recursion_depth + 1)}
        \cup {SelfCarved, MissingFile, InterruptedZip, ImageWithZip, TwoOffsets,
              [handlers |-> <<Carving(<<ImageWithZip>>, FALSE)>>],
              ZipFile(<<NestedMember(SelfCarved), PlainMember>>),
              ZipFile(<<NestedMember(InterruptedZip), ImageMember(ImageWithZip)>>)}

InitGen ==
    /\ g_self \in {ArchiveExtractor(depth) : depth \in 0..(default_max_recursion_depth + 1)}
    /\ \E file \in GenFiles :
          /\ g_stack = <<Frame("extract_archive", at_path(file, ArchivePath), 0, 0)>>
          /\ g_hist = [file |-> file, created |-> 0, yielded |-> 0, write_failed |-> FALSE]
    /\ g_temps = {}
    /\ g_state = "created"
    /\ IdleHash /\ IdleDb /\ IdleHist /\ IdleWalk /\ IdleScan
    /\ IdleDel /\ IdleRun /\ IdleList /\ IdleReview /\ IdleApp /\ db_persisted = <<>>
    /\ last_op = [op |-> "init"]

Resumable == g_state \in {"created", "suspended", "running"} /\ g_stack # <<>>

GenUnchanged ==
    UNCHANGED <<appVars, reviewVars, g_self, disk, trash, d_out, db_persisted, runVars, listVars, hashVars,
                dbVars, histVars, walkVars, scanVars>>

\* The innermost frame becomes frame and starts a generator one level in.
Call(frame, callee) == g_stack' = Append(Set(g_stack, frame), callee)

\* The innermost generator ends.
End(outcome) ==
    /\ g_stack' = Pop(g_stack, outcome)
    /\ g_state' = state_of(Pop(g_stack, outcome), outcome)

\* extract_archive: the depth check, then the loop over the handlers.
ExtractArchive ==
    /\ Resumable
    /\ g_stack[Len(g_stack)].fn = "extract_archive"
    /\ LET frame == g_stack[Len(g_stack)]
           handlers == frame.file.handlers
           try(k) == IF k > Len(handlers) THEN End("returned")
                     ELSE /\ frame.depth < MaxFrameDepth
                          /\ Call([frame EXCEPT !.k = k, !.pc = "handler"],
                                  Frame(handlers[k].handler, frame.file, k, frame.depth))
                          /\ g_state' = "running"
       IN  CASE frame.pc = "start" ->
                   IF too_deep(g_self, frame.depth)
                   THEN End("returned")
                   ELSE try(1)
             [] frame.child = "returned" ->
                   IF frame.flag THEN End("returned") ELSE try(frame.k + 1)
             [] OTHER ->
                   CASE handler_failed(frame.flag) = "break" -> End("returned")
                     [] handler_failed(frame.flag) = "raise" -> End("raised")
                     [] OTHER -> try(frame.k + 1)
    /\ last_op' = [op |-> "extract_archive"]
    /\ UNCHANGED <<g_temps, g_hist>>
    /\ GenUnchanged

\* _extract_zip, _extract_7z, _extract_rar, _extract_tar, _extract_libarchive:
\* open, then per entry yield it and, for an archive-named entry below the
\* depth limit, write the temporary copy, iterate its walk, and unlink it.
ExtractEntries ==
    /\ Resumable
    /\ g_stack[Len(g_stack)].fn \notin
          {"extract_archive", "_extract_carved", "_try_extract_embedded_formats"}
    /\ LET frame == g_stack[Len(g_stack)]
           b == frame.file.handlers[frame.h]
           id == g_hist.created + 1
       IN  CASE frame.pc = "start" ->
                   /\ IF b.fails /\ b.members = <<>>
                      THEN End("raised")
                      ELSE /\ g_stack' = Set(g_stack, [frame EXCEPT !.pc = "entry"])
                           /\ g_state' = "running"
                   /\ UNCHANGED <<g_temps, g_hist>>
             [] frame.pc = "entry" ->
                   /\ IF frame.k > Len(b.members)
                      THEN /\ End(IF b.fails THEN "raised" ELSE "returned")
                           /\ UNCHANGED g_hist
                      ELSE /\ g_stack' = Yield(Set(g_stack, [frame EXCEPT !.pc = "yielded"]))
                           /\ g_state' = "suspended"
                           /\ g_hist' = [g_hist EXCEPT !.yielded = @ + 1]
                   /\ UNCHANGED g_temps
             [] frame.pc = "yielded" ->
                   IF /\ is_archive(b.members[frame.k].name)
                      /\ frame.depth < g_self.max_recursion_depth
                   THEN \E written \in BOOLEAN :
                          /\ g_temps' = g_temps \cup {id}
                          /\ g_hist' = [g_hist EXCEPT !.created = id,
                                            !.write_failed = @ \/ ~written]
                          /\ g_state' = "running"
                          /\ IF written
                             THEN Call([frame EXCEPT !.tmp = id, !.pc = "nested"],
                                       Frame("extract_archive",
                                             at_path(b.members[frame.k].sub,
                                                     tempname(b.members[frame.k].name.ext)),
                                             0, frame.depth + 1))
                             ELSE g_stack' = Set(g_stack, [frame EXCEPT !.k = @ + 1,
                                                                        !.pc = "entry"])
                   ELSE /\ g_stack' = Set(g_stack, [frame EXCEPT !.k = @ + 1, !.pc = "entry"])
                        /\ g_state' = "running"
                        /\ UNCHANGED <<g_temps, g_hist>>
             [] OTHER ->
                   /\ g_temps' = g_temps \ {frame.tmp}
                   /\ g_stack' = Set(g_stack, [frame EXCEPT !.k = @ + 1, !.tmp = 0,
                                                              !.pc = "entry"])
                   /\ g_state' = "running"
                   /\ UNCHANGED g_hist
    /\ last_op' = [op |-> "handler"]
    /\ GenUnchanged

\* _extract_carved: open and search, then per offset write the carved copy,
\* iterate its walk one level deeper, iterate the embedded formats when that
\* yielded nothing, and unlink the copy.
ExtractCarved ==
    /\ Resumable
    /\ g_stack[Len(g_stack)].fn = "_extract_carved"
    /\ LET frame == g_stack[Len(g_stack)]
           b == frame.file.handlers[frame.h]
           id == g_hist.created + 1
           unlinked == [frame EXCEPT !.k = @ + 1, !.tmp = 0, !.pc = "offset"]
       IN  CASE frame.pc = "start" ->
                   /\ IF b.fails
                      THEN End("raised")
                      ELSE /\ g_stack' = Set(g_stack, [frame EXCEPT !.pc = "offset"])
                           /\ g_state' = "running"
                   /\ UNCHANGED <<g_temps, g_hist>>
             [] frame.pc = "offset" ->
                   IF frame.k > Len(b.embedded)
                   THEN /\ End("returned")
                        /\ UNCHANGED <<g_temps, g_hist>>
                   ELSE \E written \in BOOLEAN :
                          /\ g_temps' = g_temps \cup {id}
                          /\ g_hist' = [g_hist EXCEPT !.created = id,
                                            !.write_failed = @ \/ ~written]
                          /\ IF written
                             THEN /\ Call([frame EXCEPT !.tmp = id, !.flag = FALSE,
                                                        !.pc = "primary"],
                                          Frame("extract_archive",
                                                at_path(carved_copy(frame.file,
                                                                    b.embedded[frame.k]),
                                                        tempname(".zip")),
                                                0, frame.depth + 1))
                                  /\ g_state' = "running"
                             ELSE End("raised")
             [] frame.pc = "primary" /\ frame.child = "returned" /\ ~frame.flag ->
                   /\ Call([frame EXCEPT !.pc = "embedded"],
                           Frame("_try_extract_embedded_formats",
                                 at_path(carved_copy(frame.file, b.embedded[frame.k]),
                                         tempname(".zip")),
                                 0, frame.depth))
                   /\ g_state' = "running"
                   /\ UNCHANGED <<g_temps, g_hist>>
             [] OTHER ->
                   /\ g_temps' = g_temps \ {frame.tmp}
                   /\ g_stack' = Set(g_stack, unlinked)
                   /\ g_state' = "running"
                   /\ UNCHANGED g_hist
    /\ last_op' = [op |-> "_extract_carved"]
    /\ GenUnchanged

\* _try_extract_embedded_formats: per format found at an offset above 0 write
\* the copy, iterate its walk one level deeper, unlink it, and return once a
\* walk has yielded.
TryExtractEmbeddedFormats ==
    /\ Resumable
    /\ g_stack[Len(g_stack)].fn = "_try_extract_embedded_formats"
    /\ LET frame == g_stack[Len(g_stack)]
           formats == embedded_formats(frame.file)
           id == g_hist.created + 1
       IN  CASE frame.pc = "start" ->
                   IF frame.k > Len(formats)
                   THEN /\ End("returned")
                        /\ UNCHANGED <<g_temps, g_hist>>
                   ELSE \E written \in BOOLEAN :
                          /\ g_temps' = g_temps \cup {id}
                          /\ g_hist' = [g_hist EXCEPT !.created = id,
                                            !.write_failed = @ \/ ~written]
                          /\ IF written
                             THEN /\ Call([frame EXCEPT !.tmp = id, !.flag = FALSE,
                                                        !.pc = "walk"],
                                          Frame("extract_archive",
                                                at_path(formats[frame.k], tempname(".zip")),
                                                0, frame.depth + 1))
                                  /\ g_state' = "running"
                             ELSE End("returned")
             [] OTHER ->
                   /\ g_temps' = g_temps \ {frame.tmp}
                   /\ IF frame.child = "returned" /\ frame.flag
                      THEN End("returned")
                      ELSE /\ g_stack' = Set(g_stack, [frame EXCEPT !.k = @ + 1, !.tmp = 0,
                                                                     !.pc = "start"])
                           /\ g_state' = "running"
                   /\ UNCHANGED g_hist
    /\ last_op' = [op |-> "_try_extract_embedded_formats"]
    /\ GenUnchanged

\* generator.close(), or the last reference to the generator dropped: every
\* frame gets GeneratorExit at its yield, which no except Exception catches,
\* and runs its finally.
Close ==
    /\ g_state \in {"created", "suspended"}
    /\ g_temps' = g_temps \ {g_stack[i].tmp : i \in 1..Len(g_stack)}
    /\ g_stack' = <<>>
    /\ g_state' = "closed"
    /\ last_op' = [op |-> "close"]
    /\ UNCHANGED g_hist
    /\ GenUnchanged

Resume == ExtractArchive \/ ExtractEntries \/ ExtractCarved \/ TryExtractEmbeddedFormats

NextGen == Resume \/ Close

SpecGen == InitGen /\ [][NextGen]_vars

\* The consumer iterates until the generator ends or it closes it.
SpecGenFair == SpecGen /\ WF_vars(Resume)

\* The walk is over: the generator returned, or the consumer closed it.
Ended == g_state \in {"finished", "raised", "closed"}

\* C21: whenever a walk ends, by normal completion, by a handler exception at
\* any point, a failure while the temporary copy is written included, or by
\* the consumer abandoning the generator, no temporary file made for nested
\* or carved extraction still exists.
C21_TempFilesRemoved == Ended => g_temps = {}

\* The part of C21 the finally clauses give: a walk in which every temporary
\* copy was written in full leaves no temporary file, however it ends.
RemovedWhenWritten == (Ended /\ ~g_hist.write_failed) => g_temps = {}

\* The positions of the active extract_archive calls, outermost first.
ActiveCalls == {i \in 1..Len(g_stack) : g_stack[i].fn = "extract_archive"}

\* The extract_archive call that the call at position i was made under.
Caller(i) == CHOOSE j \in ActiveCalls : j < i /\ \A l \in ActiveCalls : l < i => l <= j

\* C25: the walker terminates on every input: each re-entry of
\* extract_archive (nested entry, carved payload, embedded-format retry) is at
\* the depth of the call it was made under plus one, a call deeper than
\* max_recursion_depth returns at once, starting nothing, so no active call
\* is deeper than max_recursion_depth + 1, and the generator always ends.
C25_WalkerTerminates ==
    /\ [](\A i \in ActiveCalls :
            /\ i = 1 => g_stack[i].depth = 0
            /\ i > 1 => g_stack[i].depth = g_stack[Caller(i)].depth + 1
            /\ g_stack[i].depth > g_self.max_recursion_depth
                  => i = Len(g_stack) /\ g_stack[i].pc = "start"
            /\ g_stack[i].depth <= g_self.max_recursion_depth + 1)
    /\ <>Ended

\* The walk of a corrupt zip, whose carved copy is the file again, has come to
\* a call one deeper than the limit, through as many temporary copies.
C25_Witness ==
    /\ g_hist.file = SelfCarved
    /\ g_self.max_recursion_depth = default_max_recursion_depth
    /\ g_stack # <<>>
    /\ g_stack[Len(g_stack)].fn = "extract_archive"
    /\ g_stack[Len(g_stack)].depth = g_self.max_recursion_depth + 1
    /\ Cardinality(g_temps) = g_self.max_recursion_depth + 1

(***************************************************************************)
(* The records a source scan writes (SpecScan).                            *)
(***************************************************************************)
\* The stored records of at least, or of less than, partial_hash_threshold bytes.
LargeRecords == {i \in 1..Len(db_files) : db_files[i].size >= config.partial_hash_threshold}
SmallRecords == {i \in 1..Len(db_files) : db_files[i].size < config.partial_hash_threshold}

\* C22: every record a source scan wrote of a size below
\* partial_hash_threshold has a full hash and no quick hash; every record of a
\* size at or above it has a quick hash, and it has its full hash as well,
\* from the same pass over the entry's stream: no update_full_hash is needed.
C22_HashPresence ==
    /\ \A i \in SmallRecords :
          /\ db_files[i].full_hash # None
          /\ db_files[i].quick_hash = None
    /\ \A i \in LargeRecords :
          /\ db_files[i].quick_hash # None
          /\ db_files[i].full_hash # None

\* A source scan stored a record of a size at or above the threshold and one
\* of a size below it.
C22_Witness ==
    /\ last_op.op = "scan_source_directories"
    /\ LargeRecords # {}
    /\ SmallRecords # {}

\* C22 as stated: the full hash of a record at or above the threshold is
\* absent as long as no update_full_hash has been called for it (no call of
\* SpecScan is one).
C22_AsStated ==
    /\ \A i \in SmallRecords :
          /\ db_files[i].full_hash # None
          /\ db_files[i].quick_hash = None
    /\ \A i \in LargeRecords :
          /\ db_files[i].quick_hash # None
          /\ db_files[i].full_hash = None

(***************************************************************************)
(* The calls of a target scan (SpecScan).                                  *)
(***************************************************************************)
\* The target files the last target scan checked, in order.
Checked == _find_files(TargetScanner(config), fs_targets)

\* The matches the last target scan reported for a target file.
Reported(target) ==
    {m \in UNION {{duplicates.returned[a][i] : i \in 1..Len(duplicates.returned[a])}
                     : a \in DOMAIN duplicates.returned} : m.target_path = target.path}

\* The digests of the first partial_hash_size bytes and of all bytes of a file.
QuickHashOf(target) == [xxh3 |-> Take(target.data, config.partial_hash_size)]
FullHashOf(target) == [xxh3 |-> target.data]

\* The positions in a call sequence of the calls of one name.
CallsOf(calls, name) == {j \in 1..Len(calls) : calls[j].call = name}

\* C23: for a target file of a size of at least partial_hash_threshold, the
\* full hash of the file is computed only after check_quick_hash_exists
\* returned true for its quick hash; when no stored record has that quick
\* hash, no full hash is computed and no match is reported; and every match
\* reported is a record whose full hash is the full hash of the target file.
C23_TwoStepCheck ==
    last_op.op = "scan_target_directories" =>
        \A i \in 1..Len(Checked) :
            LET target == Checked[i]
                calls == last_op.calls[i]
            IN  Len(target.data) >= config.partial_hash_threshold =>
                  /\ \A j \in CallsOf(calls, "compute_full_hash_for_quick") :
                        \E k \in 1..(j - 1) :
                            calls[k] = Called("check_quick_hash_exists",
                                              QuickHashOf(target), TRUE)
                  /\ (\A r \in 1..Len(db_files) :
                          db_files[r].quick_hash # QuickHashOf(target))
                        => /\ CallsOf(calls, "compute_full_hash_for_quick") = {}
                           /\ CallsOf(calls, "find_by_full_hash") = {}
                           /\ Reported(target) = {}
                  /\ \A m \in Reported(target) :
                        m.source_file.full_hash = FullHashOf(target)

\* A large target file whose quick hash a stored record of other bytes has:
\* the full hash was computed, looked up, and nothing was reported.
C23_Witness ==
    /\ last_op.op = "scan_target_directories"
    /\ Len(Checked) = 1
    /\ Len(Checked[1].data) >= config.partial_hash_threshold
    /\ CallsOf(last_op.calls[1], "compute_full_hash_for_quick") # {}
    /\ CallsOf(last_op.calls[1], "find_by_full_hash") # {}
    /\ Reported(Checked[1]) = {}

(***************************************************************************)
(* The records of an archive scanned again (SpecRescan).                   *)
(***************************************************************************)
\* The rows of table files with the archive as source_archive.
StoredFor(path) == {r \in 1..Len(db_files) : db_files[r].source_archive = path}

\* The paths of the entries the latest scan of a valid archive hashed.
LatestPaths(archive) ==
    {e.path : e \in {h \in Holds(archive.file, 0) : Len(h.data) >= config.min_file_size}}

\* The valid archives the last source scan walked.
Rescanned ==
    {i \in Present : /\ fs_archives[i].path \in walked
                     /\ fs_archives[i].file \in ValidFiles \cup {ZipFile(<<OtherEntry>>)}}

\* C24: after a completed scan or rescan of an archive the stored records
\* with that source_archive are exactly the entries the latest scan yielded
\* and hashed, none of an entry since removed from the archive remains, and
\* the stored file_count of the archive is the number of its stored records.
C24_NoStaleRecords ==
    last_op.op = "scan_source_directories" =>
        \A i \in Rescanned :
            LET a == fs_archives[i] IN
            /\ {db_files[r].path_in_archive : r \in StoredFor(a.path)} = LatestPaths(a)
            /\ db_archives[a.path].file_count = Cardinality(StoredFor(a.path))

\* The part of C24 INSERT OR REPLACE gives: every entry of the latest scan has
\* its one record, and file_count is the number of entries of that scan.
LatestEntriesStored ==
    last_op.op = "scan_source_directories" =>
        \A i \in Rescanned :
            LET a == fs_archives[i] IN
            /\ LatestPaths(a) \subseteq {db_files[r].path_in_archive : r \in StoredFor(a.path)}
            /\ db_archives[a.path].file_count = Cardinality(LatestPaths(a))

(***************************************************************************)
(* hash_stream against hash_file (SpecHash).                               *)
(***************************************************************************)
\* The full hash the file path gives for the bytes: from hash_file for a
\* small file, from compute_full_hash_for_quick for a large one.
FileFullHash ==
    IF Len(h_data) < hasher.partial_hash_threshold
    THEN hash_file(hasher, h_data, Len(h_data), TRUE)[1]
    ELSE compute_full_hash_for_quick(hasher, h_data, TRUE)

\* C26: for every content, chunk_size and partial_hash_size, on streams with
\* full and with short reads, the quick hash of hash_stream is the digest of
\* exactly the first partial_hash_size bytes and is the quick hash hash_file
\* gives for the same content, and the full hash of hash_stream is the full
\* hash the file path gives.
C26_StreamFileAgree ==
    (h_out # None /\ h_out.call = "hash_stream") =>
        /\ h_out.quick_hash # None =>
              h_out.quick_hash = [xxh3 |-> Take(h_data, hasher.partial_hash_size)]
        /\ h_out.quick_hash = hash_file(hasher, h_data, Len(h_data), TRUE)[2]
        /\ h_out.full_hash = [xxh3 |-> h_data]
        /\ h_out.full_hash = FileFullHash

\* A large stream hashed with partial_hash_size above chunk_size, through
\* reads shorter than chunk_size, and longer than its quick hash covers.
C26_Witness ==
    /\ h_out # None
    /\ h_out.call = "hash_stream"
    /\ h_out.quick_hash # None
    /\ hasher.partial_hash_size > hasher.chunk_size
    /\ Len(h_data) > hasher.partial_hash_size
    /\ h_out.reads # <<>>
    /\ h_out.reads[1] < hasher.chunk_size

(***************************************************************************)
(* SpecRewalk: one archive that never changes, scanned again and again by  *)
(* _scan_archive without recheck_archives.  The names of the temporary     *)
(* files are the tempfile module's choice, new in every walk: the walk is  *)
(* computed with tempname as a placeholder, which the action replaces by   *)
(* the name drawn for the walk.                                            *)
(***************************************************************************)
TempStems == {"tmpaaaaaaaa", "tmpbbbbbbbb"}

\* The path with the placeholder of a temporary file's name replaced.
drawn(path, stem) ==
    [k \in 1..Len(path) |->
        IF path[k].stem = tempname(path[k].ext).stem THEN Name(stem, path[k].ext)
        ELSE path[k]]

named(items, stem) == [i \in 1..Len(items) |-> [items[i] EXCEPT !.path = drawn(@, stem)]]

InitRewalk ==
    /\ w_file \in WalkFiles(1)
    /\ w_out = None
    /\ config = AppConfig(FALSE, TRUE, 0, 1, 1)
    /\ db_files = <<>> /\ db_archives = <<>> /\ db_selection = <<>>
    /\ fs_archives = <<>> /\ fs_targets = <<>>
    /\ archive_infos = None /\ duplicates = None /\ walked = {}
    /\ IdleHash /\ IdleHist /\ IdleOps
    /\ last_op = [op |-> "init"]

\* The depth limit of the scanner's walker, scaled down from 10: deep enough
\* for a carved copy inside a nested entry.
RewalkDepth == 2

RewalkScanner(cfg) == [SourceScanner(cfg) EXCEPT !.extractor = ArchiveExtractor(RewalkDepth)]

\* _scan_archive of the archive: walk, hash, add_files_batch, update_archive;
\* an exception out of the walk leaves the tables alone.
Rescan ==
    \E stem \in TempStems :
        \E ex \in {extract_archive(RewalkScanner(config).extractor,
                                   at_path(w_file, ArchivePath), 0)} :
            LET file_entries == hash_entries(RewalkScanner(config), ArchivePath,
                                             named(ex.items, stem))
            IN  /\ w_out' = [items |-> named(ex.items, stem), raised |-> ex.raised]
                /\ db_files' = IF ex.raised THEN db_files
                               ELSE add_files_batch(db_files, file_entries)
                /\ db_archives' = IF ex.raised THEN db_archives
                                  ELSE update_archive(db_archives, ArchivePath, 1, 1,
                                                      Len(file_entries), now)
                /\ last_op' = [op |-> "_scan_archive", previous |-> w_out,
                               keys |-> {Key(db_files[r]) : r \in 1..Len(db_files)}]
                /\ UNCHANGED <<opsVars, w_file, config, db_selection, fs_archives, fs_targets,
                               archive_infos, duplicates, walked, hashVars, histVars>>

NextRewalk == Rescan

SpecRewalk == InitRewalk /\ [][NextRewalk]_vars

\* The paths a walk yielded.
PathsOf(items) == {items[i].path : i \in 1..Len(items)}

\* The path without the names of temporary files.
RECURSIVE entry_path(_)
entry_path(path) ==
    IF path = <<>> THEN path
    ELSE (IF path[1].stem \in TempStems THEN <<>> ELSE <<path[1]>>) \o entry_path(Tail(path))

\* C27: walking the same unchanged archive twice yields the same set of
\* paths; no name of a temporary file is part of a yielded path; no entry is
\* yielded under two paths; and a forced rescan of the unchanged archive
\* leaves the set of (source_archive, path_in_archive) keys of table files as
\* it was.
C27_DeterministicPaths ==
    last_op.op = "_scan_archive" =>
        /\ \A p \in PathsOf(w_out.items) : \A k \in 1..Len(p) : p[k].stem \notin TempStems
        /\ \A p, q \in PathsOf(w_out.items) : entry_path(p) = entry_path(q) => p = q
        /\ last_op.previous # None =>
              /\ PathsOf(w_out.items) = PathsOf(last_op.previous.items)
              /\ {Key(db_files[r]) : r \in 1..Len(db_files)} = last_op.keys

\* The part of C27 that holds: two walks of the unchanged archive yield the
\* same paths up to the names of temporary files, and no entry under two
\* paths; when no such name is part of a path the keys stay as they were.
WalksAgreeUpToTempNames ==
    (last_op.op = "_scan_archive" /\ last_op.previous # None)
        => /\ {entry_path(p) : p \in PathsOf(w_out.items)}
                  = {entry_path(p) : p \in PathsOf(last_op.previous.items)}
           /\ \A p, q \in PathsOf(w_out.items) : entry_path(p) = entry_path(q) => p = q
           /\ (\A p \in PathsOf(w_out.items) : entry_path(p) = p)
                  => {Key(db_files[r]) : r \in 1..Len(db_files)} = last_op.keys

(***************************************************************************)
(* SpecReconfig: runs over one database file that is kept between them.    *)
(* The source directory holds one zip of one file, which never changes;    *)
(* the target directory holds one file.  Every run is started with         *)
(* --recheck and its own --partial-threshold and partial_hash_size.        *)
(***************************************************************************)
SourceEntry(c) == Member(Name("f", ".txt"), c, NoFile)

InitReconfig ==
    /\ \E c \in Contents :
          fs_archives = <<SourceFile(ArchivePath, 1, 1, ZipFile(<<SourceEntry(c)>>))>>
    /\ \E t \in Contents, readable \in BOOLEAN :
          fs_targets = <<TargetFile(TargetPath, t, readable)>>
    /\ \E threshold \in 1..MaxLen, psize \in 1..MaxLen :
          config = AppConfig(TRUE, TRUE, 0, threshold, psize)
    /\ db_files = <<>> /\ db_archives = <<>> /\ db_selection = <<>>
    /\ archive_infos = None /\ duplicates = None /\ walked = {}
    /\ IdleHash /\ IdleHist /\ IdleWalk /\ IdleOps
    /\ last_op = [op |-> "init"]

\* main() of a later run: a new AppConfig over the database of the run before.
NewRun ==
    \E threshold \in 1..MaxLen, psize \in 1..MaxLen :
        /\ config' = AppConfig(TRUE, TRUE, 0, threshold, psize)
        /\ config' # config
        /\ archive_infos' = None
        /\ duplicates' = None
        /\ walked' = {}
        /\ last_op' = [op |-> "main"]
        /\ UNCHANGED <<opsVars, dbVars, fs_archives, fs_targets, hashVars, histVars, walkVars>>

NextReconfig == ScanSource \/ ScanTarget \/ NewRun

SpecReconfig == InitReconfig /\ [][NextReconfig]_vars

\* The source file of the archive has a record, the source scan of this run
\* skipped the archive as unchanged, and the target file holds the same
\* bytes.
IndexedCopy ==
    /\ get_files_by_archive(db_files, ArchivePath) # <<>>
    /\ archive_infos # None
    /\ walked = {}
    /\ fs_targets[1].readable
    /\ fs_targets[1].data = fs_archives[1].file.handlers[1].members[1].data

\* The target scan reported the target file as a duplicate.
TargetReported ==
    \E a \in DOMAIN duplicates.returned :
        \E i \in 1..Len(duplicates.returned[a]) :
            duplicates.returned[a][i].target_path = TargetPath

\* C28: a target file byte-identical to a source file indexed by an earlier
\* run is reported as a duplicate by a target scan, whatever
\* partial_hash_threshold and partial_hash_size the earlier run and the
\* scanning run were started with.
C28_CompleteAcrossRuns ==
    (last_op.op = "scan_target_directories" /\ IndexedCopy) => TargetReported

\* The part of C28 that holds: the copy is reported when the records of the
\* archive are those a scan with the parameters of this run would store.
CompleteUnderStoredParameters ==
    ( /\ last_op.op = "scan_target_directories"
      /\ IndexedCopy
      /\ get_files_by_archive(db_files, ArchivePath)
             = hash_entries(SourceScanner(config), ArchivePath,
                            extract_archive(SourceScanner(config).extractor,
                                            at_path(fs_archives[1].file, ArchivePath),
                                            0).items) )
        => TargetReported

(***************************************************************************)
(* SpecReview: the screens after a scan.  The source directory holds one   *)
(* zip of two files, the target directory two files; the operator opens    *)
(* the ReviewScreen, toggles rows, continues to the ConfirmationScreen and *)
(* proceeds.                                                               *)
(***************************************************************************)
ReviewContents == {<<0>>, <<1>>}

UPath == Name("u", ".bin")

InitReview ==
    /\ \E f \in ReviewContents, g \in ReviewContents :
          fs_archives = <<SourceFile(ArchivePath, 1, 1,
                                     ZipFile(<<Member(Name("f", ".txt"), f, NoFile),
                                               Member(Name("g", ".txt"), g, NoFile)>>))>>
    /\ \E t \in ReviewContents, u \in ReviewContents :
          fs_targets = <<TargetFile(TargetPath, t, TRUE), TargetFile(UPath, u, TRUE)>>
    /\ \E auto_select_duplicates \in BOOLEAN :
          config = AppConfig(FALSE, auto_select_duplicates, 0, MaxLen, 1)
    /\ db_files = <<>> /\ db_archives = <<>> /\ db_selection = <<>>
    /\ archive_infos = None /\ duplicates = None /\ walked = {}
    /\ disk = [p \in {TargetPath, UPath} |-> "file"]
    /\ trash = {} /\ d_out = None /\ db_persisted = <<>>
    /\ IdleRun /\ IdleList /\ IdleGen /\ IdleReview /\ IdleApp
    /\ IdleHash /\ IdleHist /\ IdleWalk
    /\ last_op = [op |-> "init"]

\* for archive, matches in duplicates_by_archive.items(): for match in
\* matches: the matches in the order of the loops (the directory holds one
\* archive).
all_matches(duplicates_by_archive) ==
    IF ArchivePath \in DOMAIN duplicates_by_archive
    THEN duplicates_by_archive[ArchivePath]
    ELSE <<>>

\* key = (match.source_file.full_hash or match.source_file.quick_hash,
\*        match.target_path)
selection_key(match) ==
    <<IF match.source_file.full_hash # None THEN match.source_file.full_hash
      ELSE match.source_file.quick_hash,
      match.target_path>>

\* The loop of ReviewScreen.__init__: a later match of a key overwrites.
RECURSIVE initial_selections(_, _)
initial_selections(selections, matches) ==
    IF matches = <<>> THEN selections
    ELSE LET key == selection_key(Head(matches))
         IN  initial_selections(
                 [k \in DOMAIN selections \cup {key} |->
                     IF k = key THEN Head(matches).selected_for_deletion ELSE selections[k]],
                 Tail(matches))

\* ReviewScreen(config, db_path, duplicates_by_archive)
OpenReview ==
    /\ duplicates # None
    /\ current_selections = None
    /\ d_out = None
    /\ current_selections' =
           [dict |-> initial_selections(<<>>, all_matches(duplicates.returned))]
    /\ selected_files' = None
    /\ last_op' = [op |-> "ReviewScreen"]
    /\ UNCHANGED <<appVars, disk, trash, d_out, db_persisted, runVars, listVars, genVars, hashVars,
                   dbVars, histVars, walkVars, scanVars>>

\* action_toggle_selection on the row of one match.
ToggleSelection ==
    /\ current_selections # None
    /\ selected_files = None
    /\ \E i \in 1..Len(all_matches(duplicates.returned)) :
          LET key == selection_key(all_matches(duplicates.returned)[i]) IN
          /\ current_selections' =
                 [dict |-> [current_selections.dict EXCEPT ![key] = ~@]]
          /\ last_op' = [op |-> "action_toggle_selection", row |-> i]
    /\ UNCHANGED <<appVars, selected_files, disk, trash, d_out, db_persisted, runVars, listVars,
                   genVars, hashVars, dbVars, histVars, walkVars, scanVars>>

\* The target path of every match whose key is selected, once per match.
_selected_paths(selections, matches) ==
    LET chosen == SelectSeq(matches, LAMBDA m : selections[selection_key(m)])
    IN  [i \in 1..Len(chosen) |-> chosen[i].target_path]

\* _continue_to_confirmation: the ConfirmationScreen is pushed with the list,
\* or a MessageScreen when the list is empty.
ContinueToConfirmation ==
    /\ current_selections # None
    /\ selected_files = None
    /\ LET paths == _selected_paths(current_selections.dict,
                                    all_matches(duplicates.returned))
       IN  /\ selected_files' = IF paths = <<>> THEN None ELSE [list |-> paths]
           /\ last_op' = [op |-> "_continue_to_confirmation", pushed |-> paths # <<>>]
    /\ UNCHANGED <<appVars, current_selections, disk, trash, d_out, db_persisted, runVars, listVars,
                   genVars, hashVars, dbVars, histVars, walkVars, scanVars>>

\* _execute_deletion: delete_files over the list of the ConfirmationScreen.
ExecuteDeletion ==
    /\ selected_files # None
    /\ d_out = None
    /\ \E use_trash \in BOOLEAN, dry_run \in BOOLEAN, HAS_SEND2TRASH \in BOOLEAN :
          \E r \in {delete_files(disk, trash, selected_files.list, use_trash, dry_run,
                                 HAS_SEND2TRASH)} :
              /\ disk' = r.files
              /\ trash' = r.trash
              /\ d_out' = [successful |-> r.successful, failures |-> r.failures]
              /\ last_op' = [op |-> "_execute_deletion", use_trash |-> use_trash,
                             dry_run |-> dry_run, HAS_SEND2TRASH |-> HAS_SEND2TRASH]
    /\ UNCHANGED <<appVars, reviewVars, db_persisted, runVars, listVars, genVars, hashVars, dbVars,
                   histVars, walkVars, scanVars>>

\* The scans run before the ReviewScreen is opened.
ReviewScanSource == current_selections = None /\ ScanSource

ReviewScanTarget == current_selections = None /\ ScanTarget

NextReview ==
    \/ ReviewScanSource
    \/ ReviewScanTarget
    \/ OpenReview
    \/ ToggleSelection
    \/ ContinueToConfirmation
    \/ ExecuteDeletion

SpecReview == InitReview /\ [][NextReview]_vars

\* The matches the scan reported for a target path.
MatchesOf(path) ==
    {i \in 1..Len(all_matches(duplicates.returned)) :
        all_matches(duplicates.returned)[i].target_path = path}

\* C29: a target file is scheduled for deletion at most once: the list
\* handed to delete_files holds the path of a selected target file exactly
\* once, however many source records the file matches, and no path that
\* delete_files reports as deleted is also reported as a failure.
C29_ScheduledOnce ==
    /\ selected_files # None =>
          \A p \in {TargetPath, UPath} : Count(selected_files.list, p) <= 1
    /\ last_op.op = "_execute_deletion" =>
          \A i \in 1..Len(d_out.successful), j \in 1..Len(d_out.failures) :
              d_out.successful[i] # d_out.failures[j][1]

\* The part of C29 that holds: the list holds a path once per match of the
\* file, so a file that matches one source record is scheduled once.
ScheduledOncePerMatch ==
    selected_files # None =>
        \A p \in {TargetPath, UPath} :
            /\ Count(selected_files.list, p) \in {0, Cardinality(MatchesOf(p))}
            /\ Cardinality(MatchesOf(p)) <= 1 => Count(selected_files.list, p) <= 1

(***************************************************************************)
(* SpecWorkers: the main menu and the ScanningScreens pushed from it.      *)
(* Every ScanningScreen starts its _do_scan in a thread of its own, with a *)
(* DatabaseManager of its own on config.db_path; the threads take their    *)
(* steps (one round of a scan loop each) in any order.  A thread cannot be *)
(* stopped from outside: it ends when _do_scan returns.                    *)
(***************************************************************************)
MaxWorkers == 2            \* ScanningScreens pushed in one run of the app

Worker(pc, todo, cancelled, duplicates_by_archive) ==
    [pc |-> pc, todo |-> todo, _cancelled |-> cancelled,
     duplicates_by_archive |-> duplicates_by_archive]

InitWorkers ==
    /\ \E fa \in RunArchives, fb \in RunArchives :
          fs_archives = <<SourceFile(ArchivePath, 1, 1, fa), SourceFile(OtherPath, 1, 1, fb)>>
    /\ \E t \in {<<0>>, <<1>>} : fs_targets = <<TargetFile(TargetPath, t, TRUE)>>
    /\ \E recheck_archives \in BOOLEAN : config = AppConfig(recheck_archives, TRUE, 0, 1, 1)
    /\ db_files = <<>> /\ db_archives = <<>> /\ db_selection = <<>>
    /\ archive_infos = None /\ duplicates = None /\ walked = {}
    /\ screen = "MainMenuScreen"
    /\ workers = <<>>
    /\ IdleDel /\ IdleRun /\ IdleList /\ IdleGen /\ IdleReview /\ db_persisted = <<>>
    /\ IdleHash /\ IdleHist /\ IdleWalk
    /\ last_op = [op |-> "init"]

WorkersUnchanged ==
    UNCHANGED <<disk, trash, d_out, db_persisted, runVars, listVars, genVars, reviewVars,
                hashVars, histVars, walkVars, scanVars, db_selection>>

\* action_start_scan and on_mount of the ScanningScreen it pushes.
StartScan ==
    /\ screen = "MainMenuScreen"
    /\ Len(workers) < MaxWorkers
    /\ screen' = "ScanningScreen"
    /\ workers' = Append(workers, Worker("connect", <<>>, FALSE, <<>>))
    /\ last_op' = [op |-> "action_start_scan"]
    /\ UNCHANGED <<db_files, db_archives>>
    /\ WorkersUnchanged

\* on_button_pressed for cancel-btn of the ScanningScreen on top, before the
\* scan is shown as complete: the flag is set and the screen popped.
PressCancel ==
    /\ screen = "ScanningScreen"
    /\ workers[Len(workers)].pc # "complete"
    /\ workers' = [workers EXCEPT ![Len(workers)]._cancelled = TRUE]
    /\ screen' = "MainMenuScreen"
    /\ last_op' = [op |-> "on_button_pressed"]
    /\ UNCHANGED <<db_files, db_archives>>
    /\ WorkersUnchanged

\* on_button_pressed after the scan is shown as complete, with no duplicate
\* found: a MessageScreen is pushed and the ScanningScreen popped.
PressContinue ==
    /\ screen = "ScanningScreen"
    /\ workers[Len(workers)].pc = "complete"
    /\ workers[Len(workers)].duplicates_by_archive = <<>>
    /\ screen' = "MainMenuScreen"
    /\ last_op' = [op |-> "on_button_pressed"]
    /\ UNCHANGED <<workers, db_files, db_archives>>
    /\ WorkersUnchanged

\* _do_scan of worker i: db.connect() and the start of the source scan.
WorkerConnect ==
    \E i \in 1..Len(workers) :
        /\ workers[i].pc = "connect"
        /\ workers' = [workers EXCEPT ![i].pc = "source_scan",
                                      ![i].todo = _find_archives(fs_archives)]
        /\ last_op' = [op |-> "connect", worker |-> i]
        /\ UNCHANGED <<screen, db_files, db_archives>>
        /\ WorkersUnchanged

\* One round of the loop of scan_source_directories in worker i.
WorkerScanArchive ==
    \E i \in 1..Len(workers) :
        /\ workers[i].pc = "source_scan"
        /\ workers[i].todo # <<>>
        /\ \E r \in {_scan_archive(SourceScanner(config), db_files, db_archives,
                                   Head(workers[i].todo))} :
              /\ db_files' = r.files
              /\ db_archives' = r.archives
        /\ workers' = [workers EXCEPT ![i].todo = Tail(@)]
        /\ last_op' = [op |-> "_scan_archive", worker |-> i]
        /\ UNCHANGED screen
        /\ WorkersUnchanged

\* scan_source_directories has returned in worker i: _do_scan looks at
\* _cancelled; the finally clause closes the database of a cancelled scan.
WorkerSourceScanned ==
    \E i \in 1..Len(workers) :
        /\ workers[i].pc = "source_scan"
        /\ workers[i].todo = <<>>
        /\ workers' = IF workers[i]._cancelled
                      THEN [workers EXCEPT ![i].pc = "returned"]
                      ELSE [workers EXCEPT
                               ![i].pc = "target_scan",
                               ![i].todo = _find_files(TargetScanner(config), fs_targets)]
        /\ last_op' = [op |-> "scan_source_directories", worker |-> i]
        /\ UNCHANGED <<screen, db_files, db_archives>>
        /\ WorkersUnchanged

\* One round of the loop of scan_target_directories in worker i.
WorkerCheckFile ==
    \E i \in 1..Len(workers) :
        /\ workers[i].pc = "target_scan"
        /\ workers[i].todo # <<>>
        /\ workers' = [workers EXCEPT
                          ![i].duplicates_by_archive =
                              grouped(@, _check_file(TargetScanner(config), db_files,
                                                     db_selection, Head(workers[i].todo))),
                          ![i].todo = Tail(@)]
        /\ last_op' = [op |-> "_check_file", worker |-> i]
        /\ UNCHANGED <<screen, db_files, db_archives>>
        /\ WorkersUnchanged

\* scan_target_directories has returned in worker i; the finally clause
\* closes the database.
WorkerTargetScanned ==
    \E i \in 1..Len(workers) :
        /\ workers[i].pc = "target_scan"
        /\ workers[i].todo = <<>>
        /\ workers' = [workers EXCEPT
                          ![i].pc = IF workers[i]._cancelled THEN "returned" ELSE "complete"]
        /\ last_op' = [op |-> "scan_target_directories", worker |-> i]
        /\ UNCHANGED <<screen, db_files, db_archives>>
        /\ WorkersUnchanged

NextWorkers ==
    \/ StartScan
    \/ PressCancel
    \/ PressContinue
    \/ WorkerConnect
    \/ WorkerScanArchive
    \/ WorkerSourceScanned
    \/ WorkerCheckFile
    \/ WorkerTargetScanned

SpecWorkers == InitWorkers /\ [][NextWorkers]_vars

\* The workers between db.connect() and db.close().
UsingStore == {i \in 1..Len(workers) : workers[i].pc \in {"source_scan", "target_scan"}}

\* C30: at most one scan worker uses the store at any time: when a scan was
\* cancelled its worker has left the store before the worker of a new scan
\* is in it.
C30_OneWorkerUsesStore == Cardinality(UsingStore) <= 1

\* The part of C30 that holds: a worker shares the store only with workers of
\* cancelled scans, and a cancelled worker starts no target scan once its
\* source scan has returned.
OnlyCancelledWorkersOverlap ==
    \A i \in UsingStore, j \in UsingStore :
        i < j => workers[i]._cancelled

====
